---- MODULE Spec2Model ----
(***************************************************************************)
(* A model of the event-driven orchestration layer of cdnbuddy-api: the    *)
(* typed event registry (Subscriber), the chat handler registered by       *)
(* setupEventHandlers, the intent request of Client.RequestIntentAnalysis, *)
(* the CDN action executor Service.ExecuteIntent and the typed publisher.  *)
(*                                                                         *)
(* The repository holds two implementations of                             *)
(* Client.RequestIntentAnalysis.  The one of                               *)
(* internal/services/messaging/client.go, the package cmd/server imports,  *)
(* keeps no conversation memory and sends an empty history.  The other     *)
(* keeps a per-session history in the Client.  clientSource says which of  *)
(* the two a behaviour runs.                                               *)
(*                                                                         *)
(* A text is a sequence of string parts, so that fmt.Sprintf and string    *)
(* concatenation are sequence concatenation.                               *)
(***************************************************************************)
EXTENDS Integers, Sequences, FiniteSets, TLC

\* ------------------------------------------------------------------ bounds

\* Number of inbound chat events of one behaviour.
MaxChatEvents == 2

\* Number of handler registrations and of bus messages of one behaviour of the
\* Subscriber taken alone.
MaxRegistrations == 2
MaxMessages == 1

\* The clock readings a behaviour of the plan store runs through, in minutes.
MaxClock == 6
\* The number of plans BuildExecutionPlan builds in a behaviour.
MaxBuilds == 2
\* The number of turns appended to the session store taken alone.
MaxTurns == 3
\* The number of status-request events, and of services the lister returns.
MaxStatusEvents == 2
MaxListed == 2
\* The number of Publish calls followed when the transport is taken alone.
MaxPublishes == 2
\* The number of goroutines that call the session store at the same time.
MaxGoroutines == 2

Events == 1..MaxChatEvents

Users == {"u1", "u2"}
Sessions == {"s1", "s2"}

\* The user and the session of an inbound chat event.
ChatPairs == {<<"u1", "s1">>, <<"u2", "s2">>}

\* ------------------------------------------------------- subjects and types

SubjectCDNService == "cdnbuddy.cdn.service"
SubjectDomain == "cdnbuddy.cdn.domain"
SubjectCache == "cdnbuddy.cdn.cache"
SubjectMetrics == "cdnbuddy.cdn.metrics"
SubjectOperation == "cdnbuddy.operation"
SubjectChat == "cdnbuddy.chat"
SubjectExecutionPlan == "cdnbuddy.execution_plan"
SubjectStatusRequest == "cdnbuddy.status.request"
SubjectStatusResponse == "cdnbuddy.status.response"
SubjectChatResponse == "cdnbuddy.chat.response"
\* The subject RegisterStatusRequestHandler subscribes to.
SubjectStatusRequestHandler == "cdn.status.request"
\* The subject PublishExecutionPlan publishes on.
SubjectExecutionPlanPublisher == "cdnbuddy.execution.plan"
\* The subject of the intent request.
SubjectIntentAnalyze == "intent.analyze"

EventAIResponse == "chat.ai_response"

Subjects ==
    {SubjectCDNService, SubjectDomain, SubjectCache, SubjectMetrics, SubjectOperation,
     SubjectChat, SubjectExecutionPlan, SubjectStatusRequestHandler,
     SubjectStatusRequest, SubjectExecutionPlanPublisher}

\* The event families that have a register function of the Subscriber.
Families ==
    {"cdn_service", "domain", "cache", "metrics", "operation", "chat",
     "execution_plan", "status_request"}

\* The subject the typed publisher, or the request helper, of a family sends on.
PublishSubject(f) ==
    CASE f = "cdn_service" -> SubjectCDNService
      [] f = "domain" -> SubjectDomain
      [] f = "cache" -> SubjectCache
      [] f = "metrics" -> SubjectMetrics
      [] f = "operation" -> SubjectOperation
      [] f = "chat" -> SubjectChat
      [] f = "execution_plan" -> SubjectExecutionPlanPublisher
      [] f = "status_request" -> SubjectStatusRequest

\* The subject the register function of a family subscribes to.
RegisterSubject(f) ==
    CASE f = "cdn_service" -> SubjectCDNService
      [] f = "domain" -> SubjectDomain
      [] f = "cache" -> SubjectCache
      [] f = "metrics" -> SubjectMetrics
      [] f = "operation" -> SubjectOperation
      [] f = "chat" -> SubjectChat
      [] f = "execution_plan" -> SubjectExecutionPlan
      [] f = "status_request" -> SubjectStatusRequestHandler

\* The text of the fallback reply of the chat handler.
FallbackApology ==
    <<"I'm sorry, I'm having trouble processing your request right now. Please try again.">>

\* ------------------------------------------------------------ chat payloads

\* A nil pointer (a *string that is nil, an absent map entry).
Nil == "<nil>"

\* The text of the chat message of event e (each inbound event has its own).
MessageOf(e) == "message " \o ToString(e)

\* The payload that is not a JSON encoding of an object.
Malformed == [wellFormed |-> FALSE, user_id |-> "", session_id |-> "", message |-> ""]

\* The payloads of inbound message e on the chat subject.
ChatPayloads(e) ==
    {[wellFormed |-> TRUE, user_id |-> p[1], session_id |-> p[2],
      message |-> MessageOf(e)] : p \in ChatPairs} \cup {Malformed}

NoEvent == [UserID |-> "", SessionID |-> "", Message |-> ""]

\* json.Unmarshal(data, &event) of RegisterChatHandler's messageHandler.
DecodeChatEvent(data) ==
    IF data.wellFormed
    THEN [err |-> FALSE,
          event |-> [UserID |-> data.user_id, SessionID |-> data.session_id,
                     Message |-> data.message]]
    ELSE [err |-> TRUE, event |-> NoEvent]

\* ------------------------------------------------------- intent responses

ParamKeys == {"domain", "origin_hostname", "service_id"}

NoParams == [k \in ParamKeys |-> Nil]
SetupParams ==
    [k \in ParamKeys |->
        IF k = "domain" THEN "example.com"
        ELSE IF k = "origin_hostname" THEN "origin.example.com" ELSE Nil]
AddDomainParams ==
    [k \in ParamKeys |->
        IF k = "domain" THEN "example.com"
        ELSE IF k = "service_id" THEN "svc-1" ELSE Nil]

Statuses == {"ERROR", "NEEDS_INFO", "READY", "", "DONE"}
ActionNames == {"SETUP_CDN", "ADD_DOMAIN", "LIST_SERVICES", "PURGE_CACHE"}
UserMessages == {"Please rephrase", "Which domain?"}

\* The parameter maps a response with action a is given.
ParamsFor(a) ==
    IF a = "SETUP_CDN" THEN {NoParams, SetupParams}
    ELSE IF a = "ADD_DOMAIN" THEN {AddDomainParams}
    ELSE {NoParams}

\* models.IntentResponse, as decoded from the reply of the intent service.
Responses ==
    {[Status |-> st, Action |-> a, Parameters |-> p, UserMessage |-> um] :
        st \in Statuses, a \in {Nil, "SETUP_CDN"}, p \in {NoParams}, um \in UserMessages}
    \cup
    UNION {{[Status |-> "READY", Action |-> a, Parameters |-> p,
             UserMessage |-> "Please rephrase"] : p \in ParamsFor(a)} : a \in ActionNames}

NoResponse == [Status |-> "", Action |-> Nil, Parameters |-> NoParams, UserMessage |-> ""]

\* What c.nats.Request and the json.Unmarshal of its reply give
\* RequestIntentAnalysis: a timeout, a transport error, a reply that does not
\* decode, or a response.
IntentOutcomes ==
    {[kind |-> k, response |-> NoResponse] : k \in {"timeout", "transport", "baddata"}}
    \cup {[kind |-> "reply", response |-> r] : r \in Responses}

NoOutcome == [kind |-> "none", response |-> NoResponse]

\* ------------------------------------------------------ CDN action executor

\* JSON values by their kind, and no value.
JSONString(text) == [kind |-> "string", value |-> text]
JSONNumber(digits) == [kind |-> "number", value |-> digits]
JSONAbsent == [kind |-> "absent", value |-> ""]

\* The JSON object with the given members, a member left out when absent.
JSONObject(testURL, uniqueName) ==
    [k \in {key \in {"test_url", "unique_name"} :
               \/ key = "test_url" /\ testURL # JSONAbsent
               \/ key = "unique_name" /\ uniqueName # JSONAbsent}
        |-> IF k = "test_url" THEN testURL ELSE uniqueName]

\* A config blob: a text that is a JSON object, or one that does not parse.
Blob(object) == [valid |-> TRUE, object |-> object]
Unparsable == [valid |-> FALSE, object |-> JSONObject(JSONAbsent, JSONAbsent)]

\* json.Unmarshal of a config blob into a map[string]interface{} whose error
\* is dropped: the object, or the nil map when the blob does not parse.
UnmarshalConfig(config) ==
    IF config.valid THEN config.object ELSE JSONObject(JSONAbsent, JSONAbsent)

\* A string member of a decoded object: what the comma-ok form of a type
\* assertion to string tells.
IsString(object, key) == key \in DOMAIN object /\ object[key].kind = "string"

\* The unique name CacheFlyProvider.CreateService gives the service, and the
\* test URL buildConfigJSON derives from it.
UniqueName == "example-com-1a2b3c4d"
TestURL == "https://" \o UniqueName \o ".cachefly.net"

\* The config blob buildConfigJSON gives a created service.
CacheFlyConfig == Blob(JSONObject(JSONString(TestURL), JSONString(UniqueName)))

\* The config blobs a CDNProvider may give a created service: CacheFly's, one
\* with no test_url, one with no unique_name, one whose test_url is a number,
\* one that does not parse.
CreatedConfigs ==
    {CacheFlyConfig,
     Blob(JSONObject(JSONAbsent, JSONString(UniqueName))),
     Blob(JSONObject(JSONString(TestURL), JSONAbsent)),
     Blob(JSONObject(JSONNumber("7"), JSONString(UniqueName))),
     Unparsable}

\* What the CDN provider wired in main.go, CacheFlyProvider, does when the
\* executor calls it: whether CreateService and AddDomain succeed, the config
\* blob of the created service, and what ListServices returns.
ProviderOutcomes ==
    [create : {"ok", "err"}, addDomain : {"ok", "err"}, list : {"err", "none", "one"},
     config : {CacheFlyConfig}]

\* What an implementation of the CDNProvider interface may do.
AnyProviderOutcomes ==
    [create : {"ok", "err"}, addDomain : {"ok", "err"}, list : {"err", "none", "one"},
     config : CreatedConfigs]

ExecOk(text) == [err |-> FALSE, text |-> text, panic |-> FALSE]
ExecErr(text) == [err |-> TRUE, text |-> text, panic |-> FALSE]
NoExec == [err |-> FALSE, text |-> <<>>, panic |-> FALSE]
\* A type assertion that fails: the goroutine panics and nothing is returned.
ExecPanic == [err |-> FALSE, text |-> <<>>, panic |-> TRUE]

getParam(params, key) == IF params[key] # Nil THEN params[key] ELSE ""

handleSetupCDN(params, po) ==
    LET domain == getParam(params, "domain")
        origin == getParam(params, "origin_hostname")
    IN  IF domain = "" \/ origin = ""
        THEN ExecErr(<<"missing required parameters">>)
        ELSE IF po.create = "err"
        THEN ExecErr(<<"failed to create service: ", "failed to create CacheFly service">>)
        ELSE IF po.addDomain = "err"
        THEN ExecErr(<<"failed to add domain: ", "failed to add domain ", domain>>)
        ELSE LET configData == UnmarshalConfig(po.config)
             IN  IF ~IsString(configData, "test_url") \/ ~IsString(configData, "unique_name")
                 THEN ExecPanic
                 ELSE ExecOk(<<"CDN configured successfully",
                               "Test URL: ", configData["test_url"].value,
                               "Domain: ", domain, "Origin: ", origin, "Name: ", domain,
                               "Value: ", configData["unique_name"].value,
                               ".cachefly.net">>)

handleAddDomain(params, po) ==
    LET serviceID == getParam(params, "service_id")
        domain == getParam(params, "domain")
    IN  IF serviceID = "" \/ domain = ""
        THEN ExecErr(<<"missing required parameters">>)
        ELSE IF po.addDomain = "err"
        THEN ExecErr(<<"failed to add domain: ", "failed to add domain ", domain>>)
        ELSE ExecOk(<<"Domain ", domain, " added to CDN service!">>)

handleListServices(po) ==
    IF po.list = "err"
    THEN ExecErr(<<"failed to list services: ", "failed to list services">>)
    ELSE IF po.list = "none"
    THEN ExecOk(<<"You don't have any CDN services yet.">>)
    ELSE ExecOk(<<"You have ", "1", " CDN service(s):", "1. ", "example-com",
                  " (Status: ", "ACTIVE", ")">>)

\* Service.ExecuteIntent: the result string or the error of the action.
ExecuteIntent(intent, po) ==
    IF intent.Action = Nil THEN ExecErr(<<"no action specified">>)
    ELSE IF intent.Action = "SETUP_CDN" THEN handleSetupCDN(intent.Parameters, po)
    ELSE IF intent.Action = "ADD_DOMAIN" THEN handleAddDomain(intent.Parameters, po)
    ELSE IF intent.Action = "LIST_SERVICES" THEN handleListServices(po)
    ELSE ExecErr(<<"unknown action: ", intent.Action>>)

\* fmt.Sprintf("Failed to complete action: %v", err) of the chat handler.
FailureMessage(err) == <<"Failed to complete action: ">> \o err

\* -------------------------------------------------------------------- state

VARIABLES
    clientSource,        \* which Client a behaviour runs: "stateless" or "session"
    handlers,            \* Subscriber.handlers: subject -> sequence of handlers
    subs,                \* number of bus subscriptions of each subject
    pc,                  \* where the delivery of each chat event stands
    event,               \* the ChatEvent the chat handler was called with
    conversationHistory, \* RequestIntentAnalysis's local conversationHistory
    intentRequests,      \* the requests sent to intent.analyze for each event
    intentOutcome,       \* what RequestIntentAnalysis got for each event
    execCalls,           \* number of ExecuteIntent calls made for each event
    execResult,          \* what ExecuteIntent returned for each event
    published,           \* the events handed to the publisher for each event
    earlier,             \* the events whose handler had returned when this one arrived
    sessionHistory,      \* Client.sessionHistory: session id -> sequence of turns
    arrived,             \* the subject each bus message arrived on ("" before it arrives)
    runs,                \* the callback runs of each bus message, one per subscription
    calls,               \* how often each registered handler was called for each message
    clock,               \* what time.Now() reads, in minutes
    plans,               \* Storage.plans: plan id -> the plan stored under it
    sweep,               \* cleanupExpired: whether it holds s.mu, its now, the ids to visit
    built,               \* the plans BuildExecutionPlan has returned, in order
    stored,              \* plan id -> the last plan stored under it and not deleted since
    lastOp,              \* the last call of Store, Get or Delete and what it returned
    kept,                \* the ids a sweep visited and left in the map since their Store
    sent,                \* what each bus message is: its event family and its payload
    held,                \* the sequence a caller got from getSessionHistory, as it is now
    appended,            \* session id -> the turns appended since the session was cleared
    statusReq,           \* where the handling of each status request stands
    expired,             \* the step of each chat event that was pending when its deadline passed
    transport,           \* the connection to the bus and the messages given to it
    threads,             \* the call of the session store each goroutine is in
    wire                 \* the bus as the startup handlers see it: deliveries due, runs made

regVars == <<handlers, subs>>
busVars == <<arrived, runs, calls, sent>>
chatVars ==
    <<clientSource, pc, event, conversationHistory, intentRequests, intentOutcome,
      execCalls, execResult, published, earlier, sessionHistory>>

planVars == <<clock, plans, sweep, built, stored, lastOp, kept>>

auxVars == <<held, appended, statusReq, expired, transport, threads, wire>>

vars == <<regVars, busVars, chatVars, planVars, auxVars>>

\* ---------------------------------------------------------------- registry

ChatHandler == "chat"

\* Subscriber.subscribe: the handler is appended to the registry of the
\* subject, then the bus is asked for one more subscription of the subject;
\* subscribed says whether s.client.Subscribe succeeded, and err is its error.
subscribe(reg, subject, handler, subscribed) ==
    [handlers |-> [reg.handlers EXCEPT ![subject] = Append(@, handler)],
     subs |-> [reg.subs EXCEPT ![subject] = IF subscribed THEN @ + 1 ELSE @],
     err |-> ~subscribed]

\* NewSubscriber: an empty registry.
NewSubscriber ==
    [handlers |-> [s \in Subjects |-> <<>>], subs |-> [s \in Subjects |-> 0], err |-> FALSE]

\* The registrations of setupEventHandlers, in its order, each subscribed.
setupEventHandlers ==
    LET r1 == subscribe(NewSubscriber, SubjectExecutionPlan, "execution_plan", TRUE)
        r2 == subscribe(r1, SubjectChat, ChatHandler, TRUE)
        r3 == subscribe(r2, SubjectOperation, "operation", TRUE)
        r4 == subscribe(r3, SubjectCDNService, "cdn_service", TRUE)
        r5 == subscribe(r4, SubjectDomain, "domain", TRUE)
        r6 == subscribe(r5, SubjectCache, "cache", TRUE)
    IN  subscribe(r6, SubjectStatusRequestHandler, "status_request", TRUE)

\* Number of times the callbacks of the subject's subscriptions call handler h
\* for one message: every subscription's callback runs every handler.
Invocations(subject, h) ==
    subs[subject] * Cardinality({i \in DOMAIN handlers[subject] : handlers[subject][i] = h})

Messages == 1..MaxMessages

\* The handlers registered with the Subscriber taken alone, in the order of
\* their registration.
HandlerOf(k) == "h" \o ToString(k)
RegHandlers == {HandlerOf(k) : k \in 1..MaxRegistrations}

\* ---------------------------------------------------------- session history

UserTurn(message) == [Role |-> "user", Message |-> message]

\* Client.getSessionHistory: a copy of the turns, empty for an unknown session.
getSessionHistory(hist, sessionID) ==
    IF sessionID \in DOMAIN hist THEN hist[sessionID] ELSE <<>>

\* An AppendToSession that initialises the session without looking whether it
\* exists.
AppendToSessionNoExistsCheck(hist, sessionID, role, message) ==
    [s \in DOMAIN hist \cup {sessionID} |->
        IF s = sessionID THEN <<[Role |-> role, Message |-> message]>> ELSE hist[s]]

\* Client.AppendToSession: the record is created when absent, the turn appended.
AppendToSession(hist, sessionID, role, message) ==
    [s \in DOMAIN hist \cup {sessionID} |->
        IF s = sessionID
        THEN Append(getSessionHistory(hist, s), [Role |-> role, Message |-> message])
        ELSE hist[s]]

\* ------------------------------------------------------------- the publisher

\* A publisher that fills the envelope with its two id arguments exchanged.
PublishAIResponseSwapped(userID, sessionID, response) ==
    [subject |-> SubjectChatResponse,
     event |-> [Type |-> EventAIResponse, UserID |-> sessionID, SessionID |-> userID,
                Message |-> response]]

\* Publisher.PublishAIResponse: the envelope and the subject it is published on.
PublishAIResponse(userID, sessionID, response) ==
    [subject |-> SubjectChatResponse,
     event |-> [Type |-> EventAIResponse, UserID |-> userID, SessionID |-> sessionID,
                Message |-> response]]

\* Client.SendAIResponse.
SendAIResponse(userID, sessionID, response) == PublishAIResponse(userID, sessionID, response)

\* ---------------------------------------------------------- the chat handler

\* models.IntentRequest as RequestIntentAnalysis builds it.
IntentRequest(sessionID, userMessage, history) ==
    [SessionID |-> sessionID, UserMessage |-> userMessage,
     ConversationHistory |-> history, AvailableActions |-> <<>>]

\* A switch that calls the executor whenever the response names an action,
\* whatever the status.
ChatSwitchAnyAction(r) ==
    IF r.Action # Nil
    THEN [execute |-> TRUE, responseMessage |-> <<>>]
    ELSE [execute |-> FALSE, responseMessage |-> <<r.UserMessage>>]

\* A switch whose ERROR branch answers with a text of its own.
ChatSwitchOwnErrorCopy(r) ==
    IF r.Status = "ERROR"
    THEN [execute |-> FALSE, responseMessage |-> <<"Something went wrong.">>]
    ELSE IF r.Status = "READY" /\ r.Action # Nil
    THEN [execute |-> TRUE, responseMessage |-> <<>>]
    ELSE [execute |-> FALSE, responseMessage |-> <<r.UserMessage>>]

\* The switch of the chat handler on intentResponse.Status: whether the
\* executor is called, and otherwise the responseMessage.
ChatSwitch(r) ==
    CASE r.Status = "ERROR" -> [execute |-> FALSE, responseMessage |-> <<r.UserMessage>>]
      [] r.Status = "NEEDS_INFO" ->
            [execute |-> FALSE, responseMessage |-> <<r.UserMessage>>]
      [] r.Status = "READY" ->
            IF r.Action # Nil
            THEN [execute |-> TRUE, responseMessage |-> <<>>]
            ELSE [execute |-> FALSE, responseMessage |-> <<r.UserMessage>>]
      [] OTHER -> [execute |-> FALSE, responseMessage |-> <<r.UserMessage>>]

\* A READY branch that answers with the bare error of the executor.
ExecutedMessageBareError(res) == res.text

\* The responseMessage of the READY branch once ExecuteIntent has returned.
ExecutedMessage(res) == IF res.err THEN FailureMessage(res.text) ELSE res.text

\* A handler that returns the error of RequestIntentAnalysis without a reply.
NoFallbackReplies(ev) == <<>>

\* A handler that answers a failed request with the error instead of the apology.
FallbackRepliesRawError(ev) ==
    <<SendAIResponse(ev.UserID, ev.SessionID, <<"failed to request intent analysis: ">>)>>

\* The replies the handler publishes when RequestIntentAnalysis returned an error.
FallbackReplies(ev) == <<SendAIResponse(ev.UserID, ev.SessionID, FallbackApology)>>

\* A handler that publishes its reply in the branch and again at its end.
FinalRepliesTwice(ev, responseMessage) ==
    <<SendAIResponse(ev.UserID, ev.SessionID, responseMessage),
      SendAIResponse(ev.UserID, ev.SessionID, responseMessage)>>

\* The replies the handler publishes at its end, with responseMessage set.
FinalReplies(ev, responseMessage) ==
    <<SendAIResponse(ev.UserID, ev.SessionID, responseMessage)>>

\* A message arrives on the chat subject: the callback of the subscription runs
\* the registered messageHandler, which decodes the payload and, when it
\* decodes, calls the chat handler.  A payload that does not decode is logged.
Deliver(e) ==
    /\ pc[e] = "idle"
    /\ \A d \in Events : d < e => pc[d] # "idle"
    /\ Invocations(SubjectChat, ChatHandler) = 1
    /\ \E data \in ChatPayloads(e) :
        LET d == DecodeChatEvent(data)
        IN  IF d.err
            THEN /\ pc' = [pc EXCEPT ![e] = "dropped"]
                 /\ event' = event
            ELSE /\ pc' = [pc EXCEPT ![e] = "handling"]
                 /\ event' = [event EXCEPT ![e] = d.event]
    /\ earlier' = [earlier EXCEPT ![e] = {d \in Events : pc[d] = "done"}]
    /\ UNCHANGED <<auxVars, planVars, regVars, busVars, clientSource, conversationHistory, intentRequests,
                   intentOutcome, execCalls, execResult, published, sessionHistory>>

\* Client.RequestIntentAnalysis of internal/services/messaging/client.go, up to
\* the request: the request carries the message and an empty history.
RequestIntentAnalysis(e) ==
    /\ pc[e] = "handling"
    /\ clientSource = "stateless"
    /\ intentRequests' =
        [intentRequests EXCEPT
            ![e] = Append(@, IntentRequest(event[e].SessionID, event[e].Message, <<>>))]
    /\ pc' = [pc EXCEPT ![e] = "await_intent"]
    /\ UNCHANGED <<auxVars, planVars, regVars, busVars, earlier, clientSource, event, conversationHistory,
                   intentOutcome, execCalls, execResult, published, sessionHistory>>

\* The session-keeping Client.RequestIntentAnalysis, first statement: the
\* history of the session is read under the read lock.
ReadSessionHistory(e) ==
    /\ pc[e] = "handling"
    /\ clientSource = "session"
    /\ conversationHistory' =
        [conversationHistory EXCEPT
            ![e] = getSessionHistory(sessionHistory, event[e].SessionID)]
    /\ pc' = [pc EXCEPT ![e] = "have_history"]
    /\ UNCHANGED <<auxVars, planVars, regVars, busVars, earlier, clientSource, event, intentRequests, intentOutcome,
                   execCalls, execResult, published, sessionHistory>>

\* The session-keeping Client.RequestIntentAnalysis, second statement: the user
\* message is appended to the session under the write lock.
AppendUserMessage(e) ==
    /\ pc[e] = "have_history"
    /\ sessionHistory' =
        AppendToSession(sessionHistory, event[e].SessionID, "user", event[e].Message)
    /\ pc' = [pc EXCEPT ![e] = "appended"]
    /\ UNCHANGED <<auxVars, planVars, regVars, busVars, earlier, clientSource, event, conversationHistory,
                   intentRequests, intentOutcome, execCalls, execResult, published>>

\* The session-keeping Client.RequestIntentAnalysis, the request: it carries the
\* history read before the append.
RequestIntentAnalysisSession(e) ==
    /\ pc[e] = "appended"
    /\ intentRequests' =
        [intentRequests EXCEPT
            ![e] = Append(@, IntentRequest(event[e].SessionID, event[e].Message,
                                           conversationHistory[e]))]
    /\ pc' = [pc EXCEPT ![e] = "await_intent"]
    /\ UNCHANGED <<auxVars, planVars, regVars, busVars, earlier, clientSource, event, conversationHistory,
                   intentOutcome, execCalls, execResult, published, sessionHistory>>

\* c.nats.Request returns and the handler goes on to its switch: on an error the
\* fallback is published and the handler returns; when the switch calls for the
\* executor, ExecuteIntent is called; otherwise the reply is published.
IntentReturns(e) ==
    /\ pc[e] = "await_intent"
    /\ \E o \in IntentOutcomes :
        /\ intentOutcome' = [intentOutcome EXCEPT ![e] = o]
        /\ IF o.kind # "reply"
           THEN /\ published' = [published EXCEPT ![e] = @ \o FallbackReplies(event[e])]
                /\ pc' = [pc EXCEPT ![e] = "done"]
                /\ execCalls' = execCalls
           ELSE IF ChatSwitch(o.response).execute
           THEN /\ execCalls' = [execCalls EXCEPT ![e] = @ + 1]
                /\ pc' = [pc EXCEPT ![e] = "executing"]
                /\ published' = published
           ELSE /\ published' =
                    [published EXCEPT
                        ![e] = @ \o FinalReplies(event[e],
                                                 ChatSwitch(o.response).responseMessage)]
                /\ pc' = [pc EXCEPT ![e] = "done"]
                /\ execCalls' = execCalls
    /\ UNCHANGED <<auxVars, planVars, regVars, busVars, earlier, clientSource, event, conversationHistory,
                   intentRequests, execResult, sessionHistory>>

\* cdnService.ExecuteIntent returns its result or its error and the handler
\* publishes the reply and returns; or a type assertion of handleSetupCDN
\* fails, and the panic leaves the handler and the callback that called it.
ExecuteReturnsWith(e, outcomes) ==
    /\ pc[e] = "executing"
    /\ \E po \in outcomes :
        LET res == ExecuteIntent(intentOutcome[e].response, po)
        IN  /\ execResult' = [execResult EXCEPT ![e] = res]
            /\ IF res.panic
               THEN /\ published' = published
                    /\ pc' = [pc EXCEPT ![e] = "panicked"]
               ELSE /\ published' =
                        [published EXCEPT
                            ![e] = @ \o FinalReplies(event[e], ExecutedMessage(res))]
                    /\ pc' = [pc EXCEPT ![e] = "done"]
    /\ UNCHANGED <<auxVars, planVars, regVars, busVars, earlier, clientSource, event, conversationHistory,
                   intentRequests, intentOutcome, execCalls, sessionHistory>>

\* The executor returns, its provider being the CacheFlyProvider of main.go.
ExecuteReturns(e) == ExecuteReturnsWith(e, ProviderOutcomes)

\* The executor returns, its provider being any CDNProvider.
ExecuteReturnsAnyProvider(e) == ExecuteReturnsWith(e, AnyProviderOutcomes)

\* ------------------------------------------------------- execution plans

\* 5 * time.Minute, in minutes.
TTL == 5

\* The clock readings.
Times == 0..MaxClock

\* t.After(u) of package time.
After(t, u) == t > u

\* A Go map read: the value of the key, nil when the key is absent.
Lookup(params, key) == IF key \in DOMAIN params THEN params[key] ELSE Nil

\* The classification responses plans are built from.
BuildIntents ==
    {[Status |-> "READY", Action |-> "SETUP_CDN", UserMessage |-> "",
      Parameters |-> [domain |-> "example.com", origin |-> "origin.example.com"]]}

\* generatePlanID, given what time.Now().UnixNano() reads.
generatePlanID(reading) == "plan_" \o ToString(reading)

\* A BuildExecutionPlan that reads the origin under the key the executor reads
\* it under.
PlanTextOriginHostname(intent) ==
    LET domain == IF Lookup(intent.Parameters, "domain") # Nil
                  THEN Lookup(intent.Parameters, "domain") ELSE ""
        origin == IF Lookup(intent.Parameters, "origin_hostname") # Nil
                  THEN Lookup(intent.Parameters, "origin_hostname") ELSE ""
    IN  CASE intent.Action = Nil ->
                [Title |-> <<>>, Description |-> "", Steps |-> <<>>]
          [] intent.Action = "SETUP_CDN" ->
                [Title |-> <<"Setup CDN for ", domain>>,
                 Description |-> "Create and configure CDN service",
                 Steps |-> << <<"Create CDN service for ", domain>>,
                              <<"Configure origin: ", origin>>,
                              <<"Enable SSL certificate">>,
                              <<"Configure caching rules">> >>]
          [] OTHER ->
                [Title |-> <<"Execute action">>,
                 Description |-> "Process your request",
                 Steps |-> << <<"Execute requested action">> >>]

\* The title, description and steps BuildExecutionPlan gives a plan.
PlanText(intent) ==
    LET domain == IF Lookup(intent.Parameters, "domain") # Nil
                  THEN Lookup(intent.Parameters, "domain") ELSE ""
        origin == IF Lookup(intent.Parameters, "origin") # Nil
                  THEN Lookup(intent.Parameters, "origin") ELSE ""
    IN  CASE intent.Action = Nil ->
                [Title |-> <<>>, Description |-> "", Steps |-> <<>>]
          [] intent.Action = "SETUP_CDN" ->
                [Title |-> <<"Setup CDN for ", domain>>,
                 Description |-> "Create and configure CDN service",
                 Steps |-> << <<"Create CDN service for ", domain>>,
                              <<"Configure origin: ", origin>>,
                              <<"Enable SSL certificate">>,
                              <<"Configure caching rules">> >>]
          [] intent.Action = "PURGE_CACHE" ->
                [Title |-> <<"Purge cache for ", domain>>,
                 Description |-> "Clear CDN cache",
                 Steps |-> << <<"Clear cache for ", domain>>,
                              <<"Propagate changes across CDN nodes">> >>]
          [] OTHER ->
                [Title |-> <<"Execute action">>,
                 Description |-> "Process your request",
                 Steps |-> << <<"Execute requested action">> >>]

\* BuildExecutionPlan, given the three readings of the clock it takes: for the
\* id, for CreatedAt and for ExpiresAt, in that order.
BuildExecutionPlan(intent, idReading, createdReading, expiresReading) ==
    [ID |-> generatePlanID(idReading),
     Title |-> PlanText(intent).Title,
     Description |-> PlanText(intent).Description,
     Steps |-> PlanText(intent).Steps,
     EstimatedDuration |-> "30 seconds",
     Action |-> IF intent.Action # Nil THEN intent.Action ELSE "",
     Parameters |-> intent.Parameters,
     IntentResponse |-> intent,
     CreatedAt |-> createdReading,
     ExpiresAt |-> expiresReading + TTL]

\* No plan: the nil *ExecutionPlan.
NoPlan == [ID |-> Nil]

\* What stored holds for an id whose plan was deleted and not stored again.
Deleted == [ID |-> "deleted"]

\* A plan, as against no plan and a deleted one.
Live(p) == p \notin {NoPlan, Deleted}

\* The errors of Get, and the nil error.
NoError == <<>>
ErrNotFound(planID) == <<"plan not found: ", planID>>
ErrExpired(planID) == <<"plan expired: ", planID>>

\* delete(m, k) of Go: the map without the key.
MapDelete(m, k) == [id \in DOMAIN m \ {k} |-> m[id]]

\* m[k] = v of Go: the map with the key set.
MapSet(m, k, v) == [id \in DOMAIN m \cup {k} |-> IF id = k THEN v ELSE m[id]]

\* A Store that leaves the plan already held under the id in place.
StoreKeepsFirst(s, plan) ==
    [plans |-> IF plan.ID \in DOMAIN s THEN s ELSE MapSet(s, plan.ID, plan),
     err |-> NoError]

\* Storage.Store: s.plans[plan.ID] = &plan.
Store(s, plan) ==
    [plans |-> MapSet(s, plan.ID, plan), err |-> NoError]

\* A Get that takes a plan to expire when it was created.
GetExpiresAtCreation(s, now, planID) ==
    IF planID \notin DOMAIN s THEN [plan |-> NoPlan, err |-> ErrNotFound(planID)]
    ELSE IF After(now, s[planID].CreatedAt)
    THEN [plan |-> NoPlan, err |-> ErrExpired(planID)]
    ELSE [plan |-> s[planID], err |-> NoError]

\* A Get that does not look at expires_at.
GetIgnoresExpiry(s, now, planID) ==
    IF planID \notin DOMAIN s THEN [plan |-> NoPlan, err |-> ErrNotFound(planID)]
    ELSE [plan |-> s[planID], err |-> NoError]

\* Storage.Get at clock reading now.
Get(s, now, planID) ==
    IF planID \notin DOMAIN s THEN [plan |-> NoPlan, err |-> ErrNotFound(planID)]
    ELSE IF After(now, s[planID].ExpiresAt)
    THEN [plan |-> NoPlan, err |-> ErrExpired(planID)]
    ELSE [plan |-> s[planID], err |-> NoError]

\* A Delete that logs and removes nothing.
DeleteOnlyLogs(s, planID) == s

\* Storage.Delete: delete(s.plans, planID).
Delete(s, planID) == MapDelete(s, planID)

\* A sweep that takes a plan to expire when it was created.
SweepRemovesByCreation(now, plan) == After(now, plan.CreatedAt)

\* The test of cleanupExpired on one entry: whether it deletes the entry.
SweepRemoves(now, plan) == After(now, plan.ExpiresAt)

\* cleanupExpired waiting for its ticker, s.mu not held.
SweepWaiting == [pc |-> "wait", now |-> 0, todo |-> {}]

NoOp == [op |-> "none", id |-> "", when |-> "none", present |-> FALSE,
         logical |-> NoPlan, plan |-> NoPlan, err |-> NoError]

\* NewStorage, before any plan is built.
InitPlans ==
    /\ clock = 0
    /\ plans = <<>>
    /\ sweep = SweepWaiting
    /\ built = <<>>
    /\ stored = <<>>
    /\ lastOp = NoOp
    /\ kept = {}

\* What a bus message is: the family whose publisher sent it ("" when it came
\* from outside), whether its payload decodes, and whether the family had a
\* subscribed handler when it was sent.
NotSent == [family |-> "", wellFormed |-> TRUE, registered |-> FALSE]

\* ------------------------------------------------- the session store alone

\* The role and text of the turns appended when the store is taken alone.
SessionTurns == {[Role |-> "user", Message |-> "hi"],
                 [Role |-> "assistant", Message |-> "hi"],
                 [Role |-> "assistant", Message |-> "ok"]}

\* What a caller writes over a turn of a sequence it was given.
Scribble == [Role |-> "user", Message |-> "overwritten"]

\* A getSessionHistory that returns the stored slice itself.
SharesStoreWhenKnown(hist, sessionID) == sessionID \in DOMAIN hist

\* Whether the slice getSessionHistory returns shares its array with the
\* store: never, it is a fresh empty slice or a make and copy of the stored one.
SharesStore(hist, sessionID) == FALSE

\* A clearSession that empties the history of the session and keeps its record.
clearSessionKeepsRecord(hist, sessionID) ==
    [s \in DOMAIN hist |-> IF s = sessionID THEN <<>> ELSE hist[s]]

\* Client.clearSession: delete(c.sessionHistory, sessionID).
clearSession(hist, sessionID) == [s \in DOMAIN hist \ {sessionID} |-> hist[s]]

\* Client.getSessionCount: len(c.sessionHistory).
getSessionCount(hist) == Cardinality(DOMAIN hist)

\* Client.getAllSessionIDs: the keys of c.sessionHistory, in the order the map
\* is ranged over, which is not specified; taken as a set.
getAllSessionIDs(hist) == DOMAIN hist

\* A getSessionHistory that makes the record of a session it does not find.
StoreAfterGetSessionHistoryCreates(hist, sessionID) ==
    [s \in DOMAIN hist \cup {sessionID} |->
        IF s \in DOMAIN hist THEN hist[s] ELSE <<>>]

\* The store after Client.getSessionHistory: the method reads the map under
\* RLock and assigns nothing to it, for a known session and for an unknown one.
StoreAfterGetSessionHistory(hist, sessionID) == hist

\* No sequence held by a caller.
NoHeld == [got |-> FALSE, session |-> "", shared |-> FALSE, turns |-> <<>>,
           asReturned |-> <<>>, logged |-> <<>>]

\* The turns appended to a session since it was last cleared.
Log(sessionID) == IF sessionID \in DOMAIN appended THEN appended[sessionID] ELSE <<>>

\* The number of AppendToSession calls made so far and not cleared.
RECURSIVE TurnCount(_)
TurnCount(S) ==
    IF S = {} THEN 0
    ELSE LET x == CHOOSE y \in S : TRUE IN Len(appended[x]) + TurnCount(S \ {x})

\* AppendToSession is called.
CallAppend(sessionID, role, text) ==
    /\ TurnCount(DOMAIN appended) < MaxTurns
    /\ sessionHistory' = AppendToSession(sessionHistory, sessionID, role, text)
    /\ appended' = [s \in DOMAIN appended \cup {sessionID} |->
                      IF s = sessionID
                      THEN Append(Log(s), [Role |-> role, Message |-> text])
                      ELSE appended[s]]
    /\ UNCHANGED <<wire, held, statusReq, expired, transport, threads, regVars, busVars,
                   planVars,
                   clientSource, pc, event, conversationHistory, intentRequests,
                   intentOutcome, execCalls, execResult, published, earlier>>

\* getSessionHistory is called and its caller keeps what it returns; one
\* caller is followed, from its call on.
CallGetHistory(sessionID) ==
    /\ ~held.got
    /\ held' = [got |-> TRUE, session |-> sessionID,
                shared |-> SharesStore(sessionHistory, sessionID),
                turns |-> getSessionHistory(sessionHistory, sessionID),
                asReturned |-> getSessionHistory(sessionHistory, sessionID),
                logged |-> Log(sessionID)]
    /\ sessionHistory' = StoreAfterGetSessionHistory(sessionHistory, sessionID)
    /\ UNCHANGED <<wire, appended, statusReq, expired, transport, threads, regVars, busVars,
                   planVars,
                   clientSource, pc, event, conversationHistory, intentRequests,
                   intentOutcome, execCalls, execResult, published, earlier>>

\* The caller writes over turn i of the sequence it holds; the write reaches
\* the store when the sequence shares its array with the store.
CallerOverwrites(i) ==
    /\ held.got
    /\ i \in DOMAIN held.turns
    /\ held.turns[i] # Scribble
    /\ held' = [held EXCEPT !.turns[i] = Scribble]
    /\ sessionHistory' =
          IF held.shared /\ held.session \in DOMAIN sessionHistory
                         /\ i \in DOMAIN sessionHistory[held.session]
          THEN [sessionHistory EXCEPT ![held.session][i] = Scribble]
          ELSE sessionHistory
    /\ UNCHANGED <<wire, appended, statusReq, expired, transport, threads, regVars, busVars,
                   planVars,
                   clientSource, pc, event, conversationHistory, intentRequests,
                   intentOutcome, execCalls, execResult, published, earlier>>

\* The caller appends to the sequence it holds: the append goes to an array of
\* the caller's own, the length of the stored slice is not changed by it.
CallerAppends ==
    /\ held.got
    /\ Len(held.turns) = Len(held.asReturned)
    /\ held' = [held EXCEPT !.turns = Append(@, Scribble)]
    /\ UNCHANGED <<wire, appended, statusReq, expired, transport, threads, regVars, busVars,
                   planVars,
                   chatVars>>

\* clearSession is called.
CallClear(sessionID) ==
    /\ sessionID \in DOMAIN sessionHistory
    /\ sessionHistory' = clearSession(sessionHistory, sessionID)
    /\ appended' = [s \in DOMAIN appended \ {sessionID} |-> appended[s]]
    /\ UNCHANGED <<wire, held, statusReq, expired, transport, threads, regVars, busVars,
                   planVars,
                   clientSource, pc, event, conversationHistory, intentRequests,
                   intentOutcome, execCalls, execResult, published, earlier>>

\* ------------------------------------- the session store under concurrent calls

Goroutines == 1..MaxGoroutines

\* A goroutine that is in no call of the session store.  Of a call: the method,
\* its arguments, the map as the body of AppendToSession read it, and what
\* getSessionHistory returned (current: the session was not cleared since).
NoCall == [pc |-> "idle", op |-> "", session |-> "", turn |-> Scribble,
           local |-> <<>>, result |-> <<>>, current |-> FALSE]

\* The goroutines that hold c.mu: for writing, or for reading.
Writers(ts) == {g \in Goroutines : ts[g].pc \in {"locked", "read"} /\ ts[g].op # "get"}
Readers(ts) == {g \in Goroutines : ts[g].pc = "locked" /\ ts[g].op = "get"}

\* A session store whose methods do not take the lock.
MayLockAlways(ts, g) == TRUE

\* c.mu.RLock() of getSessionHistory and c.mu.Lock() of AppendToSession and
\* clearSession: whether goroutine g gets the lock.
MayLock(ts, g) ==
    IF ts[g].op = "get" THEN Writers(ts) = {}
    ELSE Writers(ts) = {} /\ Readers(ts) = {}

\* The appends that were called and have not returned.
AppendsInFlight == {g \in Goroutines : threads[g].pc # "idle" /\ threads[g].op = "append"}

\* Goroutine g calls a method of the session store.
CallSession(g, op, sessionID, turn) ==
    /\ threads[g].pc = "idle"
    /\ op = "append" =>
          TurnCount(DOMAIN appended) + Cardinality(AppendsInFlight) < MaxTurns
    /\ op # "append" => turn = Scribble
    /\ threads' = [threads EXCEPT ![g] = [NoCall EXCEPT !.pc = "want", !.op = op,
                                                         !.session = sessionID,
                                                         !.turn = turn]]
    /\ UNCHANGED <<wire, held, appended, statusReq, expired, transport, regVars, busVars,
                   planVars, chatVars>>

\* The call of goroutine g gets c.mu.
AcquireLock(g) ==
    /\ threads[g].pc = "want"
    /\ MayLock(threads, g)
    /\ threads' = [threads EXCEPT ![g].pc = "locked"]
    /\ UNCHANGED <<wire, held, appended, statusReq, expired, transport, regVars, busVars,
                   planVars, chatVars>>

\* AppendToSession reads the map: the exists test and the operand of append.
AppendReads(g) ==
    /\ threads[g].pc = "locked" /\ threads[g].op = "append"
    /\ threads' = [threads EXCEPT ![g].pc = "read", ![g].local = sessionHistory]
    /\ UNCHANGED <<wire, held, appended, statusReq, expired, transport, regVars, busVars,
                   planVars, chatVars>>

\* AppendToSession assigns the appended slice to the map entry and returns,
\* which unlocks c.mu.
AppendWrites(g) ==
    /\ threads[g].pc = "read"
    /\ LET t == threads[g]
           slice == AppendToSession(t.local, t.session, t.turn.Role,
                                    t.turn.Message)[t.session]
       IN  /\ sessionHistory' =
                 [s \in DOMAIN sessionHistory \cup {t.session} |->
                     IF s = t.session THEN slice ELSE sessionHistory[s]]
           /\ appended' = [s \in DOMAIN appended \cup {t.session} |->
                             IF s = t.session THEN Append(Log(s), t.turn)
                             ELSE appended[s]]
    /\ threads' = [threads EXCEPT ![g] = NoCall]
    /\ UNCHANGED <<wire, held, statusReq, expired, transport, regVars, busVars, planVars,
                   clientSource, pc, event, conversationHistory, intentRequests,
                   intentOutcome, execCalls, execResult, published, earlier>>

\* getSessionHistory copies the history and returns, which unlocks c.mu.
GetReturns(g) ==
    /\ threads[g].pc = "locked" /\ threads[g].op = "get"
    /\ threads' = [threads EXCEPT
                      ![g] = [NoCall EXCEPT
                                !.session = threads[g].session,
                                !.result = getSessionHistory(sessionHistory,
                                                             threads[g].session),
                                !.current = TRUE]]
    /\ UNCHANGED <<wire, held, appended, statusReq, expired, transport, regVars, busVars,
                   planVars, chatVars>>

\* clearSession deletes the record and returns, which unlocks c.mu.
ClearReturns(g) ==
    /\ threads[g].pc = "locked" /\ threads[g].op = "clear"
    /\ sessionHistory' = clearSession(sessionHistory, threads[g].session)
    /\ appended' = [s \in DOMAIN appended \ {threads[g].session} |-> appended[s]]
    /\ threads' = [h \in Goroutines |->
                      IF h = g THEN NoCall
                      ELSE IF threads[h].current /\ threads[h].session = threads[g].session
                      THEN NoCall
                      ELSE threads[h]]
    /\ UNCHANGED <<wire, held, statusReq, expired, transport, regVars, busVars, planVars,
                   clientSource, pc, event, conversationHistory, intentRequests,
                   intentOutcome, execCalls, execResult, published, earlier>>

\* ------------------------------------------------------- status requests

StatusEvents == 1..MaxStatusEvents

\* The services the lister's answers are made of: one whose config blob has a
\* test_url, one whose blob has none, one whose test_url is not a string, and
\* one whose blob does not parse.
ListedServices ==
    {[ID |-> "svc1", Name |-> "alpha", Status |-> "active", Provider |-> "cachefly",
      Config |-> Blob(JSONObject(JSONString("alpha.cachefly.net"), JSONString("alpha")))],
     [ID |-> "svc2", Name |-> "beta", Status |-> "pending", Provider |-> "cachefly",
      Config |-> Blob(JSONObject(JSONAbsent, JSONString("beta")))],
     [ID |-> "svc3", Name |-> "gamma", Status |-> "active", Provider |-> "cachefly",
      Config |-> Blob(JSONObject(JSONNumber("7"), JSONAbsent))],
     [ID |-> "svc4", Name |-> "delta", Status |-> "active", Provider |-> "cachefly",
      Config |-> Unparsable]}

\* What ListServices returns: an error, or a list of services.
ListOutcomes ==
    {[err |-> TRUE, services |-> <<>>]} \cup
    {[err |-> FALSE, services |-> l] :
        l \in UNION {[1..n -> ListedServices] : n \in 0..MaxListed}}

\* The test URL the status handler reads out of a config blob.
TestURLOf(config) ==
    LET m == UnmarshalConfig(config)
    IN  IF "test_url" \in DOMAIN m /\ m["test_url"].kind = "string"
        THEN m["test_url"].value ELSE ""

\* The entry of the status response for a listed service.
ToServiceStatus(svc) ==
    [ID |-> svc.ID, Name |-> svc.Name, Status |-> svc.Status,
     TestURL |-> TestURLOf(svc.Config), Provider |-> svc.Provider]

\* A Select over a sequence.
RECURSIVE Keep(_, _)
Keep(seq, S) ==
    IF seq = <<>> THEN <<>>
    ELSE IF Head(seq) \in S THEN <<Head(seq)>> \o Keep(Tail(seq), S)
         ELSE Keep(Tail(seq), S)

\* A status handler that leaves out the services whose config does not parse.
StatusServicesSkipsUnparsable(outcome) ==
    IF outcome.err THEN <<>>
    ELSE LET parsed == Keep(outcome.services,
                            {svc \in ListedServices : svc.Config # Unparsable})
         IN  [i \in DOMAIN parsed |-> ToServiceStatus(parsed[i])]

\* The services of the status response the handler builds from what the
\* lister returned.
StatusServices(outcome) ==
    IF outcome.err THEN <<>>
    ELSE [i \in DOMAIN outcome.services |-> ToServiceStatus(outcome.services[i])]

\* Publisher.PublishStatusResponse: the event it publishes, on which subject.
PublishStatusResponse(userID, sessionID, services) ==
    [subject |-> SubjectStatusResponse,
     event |-> [UserID |-> userID, SessionID |-> sessionID, Services |-> services]]

\* A status request not yet received.
NoStatus == [pc |-> "idle", event |-> [UserID |-> "", SessionID |-> ""],
             listed |-> [err |-> FALSE, services |-> <<>>],
             published |-> <<>>, classifierCalls |-> 0]

\* A status-request event reaches the status handler, which calls the lister.
StatusRequestArrives(r, userID, sessionID) ==
    /\ statusReq[r].pc = "idle"
    /\ \A q \in StatusEvents : q < r => statusReq[q].pc # "idle"
    /\ statusReq' = [statusReq EXCEPT ![r].pc = "listing",
                                      ![r].event = [UserID |-> userID,
                                                    SessionID |-> sessionID]]
    /\ UNCHANGED <<wire, held, appended, expired, transport, threads, regVars, busVars,
                   planVars,
                   chatVars>>

\* ListServices returns to the status handler, which publishes the response.
ListServicesReturns(r, outcome) ==
    /\ statusReq[r].pc = "listing"
    /\ statusReq' = [statusReq EXCEPT
          ![r].pc = "done",
          ![r].listed = outcome,
          ![r].published = Append(@, PublishStatusResponse(statusReq[r].event.UserID,
                                                          statusReq[r].event.SessionID,
                                                          StatusServices(outcome)))]
    /\ UNCHANGED <<wire, held, appended, expired, transport, threads, regVars, busVars,
                   planVars,
                   chatVars>>

\* -------------------------------------------------------------- transport

\* nats.MaxReconnects(10) of NewNATSClient.
MaxReconnects == 10

\* No Request made yet.
NoRequest == [state |-> "", err |-> "nil", atOnce |-> TRUE, marshals |-> TRUE]

\* NewNATSClient after nats.Connect succeeded: the connection is up, nothing
\* was published.  msgs are the Publish calls made, pending the ones among
\* them that the connection holds in its reconnect buffer.
NewNATSClient ==
    [state |-> "connected", attempts |-> 0, msgs |-> <<>>, pending |-> {},
     request |-> NoRequest]

\* conn.Publish of a payload, by the state of the connection: written to the
\* server when connected; while the connection is reconnecting, appended to
\* the reconnect buffer (NewNATSClient sets no ReconnectBufSize, so the
\* library's default buffer is there) unless the buffer is full; refused when
\* the connection is closed.
connPublish(state, bufferFull) ==
    CASE state = "connected" -> [err |-> "nil", delivered |-> TRUE, buffered |-> FALSE]
      [] state = "reconnecting" /\ ~bufferFull ->
            [err |-> "nil", delivered |-> FALSE, buffered |-> TRUE]
      [] state = "reconnecting" /\ bufferFull ->
            [err |-> "nats: outbound buffer limit exceeded", delivered |-> FALSE, buffered |-> FALSE]
      [] OTHER -> [err |-> "nats: connection closed", delivered |-> FALSE, buffered |-> FALSE]

\* NATSClient.Publish: json.Marshal, then conn.Publish; the state of the
\* connection is not looked at.
Publish(state, marshals, bufferFull) ==
    IF ~marshals THEN [err |-> "json: unsupported type", delivered |-> FALSE, buffered |-> FALSE]
    ELSE connPublish(state, bufferFull)

\* conn.Request by the state of the connection: a reply or a timeout when
\* connected; while reconnecting the request is buffered like a publish and
\* the call waits for a reply until its timeout; refused when closed.
connRequest(state, replied) ==
    CASE state = "connected" ->
            [state |-> state, err |-> IF replied THEN "nil" ELSE "nats: timeout",
             atOnce |-> FALSE]
      [] state = "reconnecting" -> [state |-> state, err |-> "nats: timeout", atOnce |-> FALSE]
      [] OTHER -> [state |-> state, err |-> "nats: connection closed", atOnce |-> TRUE]

\* NATSClient.Request: json.Marshal, then conn.Request.
Request(state, marshals, replied) ==
    IF ~marshals THEN [state |-> state, err |-> "json: unsupported type", atOnce |-> TRUE]
    ELSE connRequest(state, replied)

\* NATSClient.IsConnected.
IsConnected(state) == state = "connected"

\* The connection to the server is lost: the library starts reconnecting.
Disconnects ==
    /\ transport.state = "connected"
    /\ transport' = [transport EXCEPT !.state = "reconnecting", !.attempts = 0]
    /\ UNCHANGED <<wire, held, appended, statusReq, expired, threads, regVars, busVars,
                   planVars,
                   chatVars>>

\* A connection that goes on reconnecting whatever the number of attempts.
ReconnectFailsForever ==
    /\ transport.state = "reconnecting"
    /\ transport' = [transport EXCEPT !.attempts = @ + 1]
    /\ UNCHANGED <<wire, held, appended, statusReq, expired, threads, regVars, busVars,
                   planVars,
                   chatVars>>

\* A reconnect attempt fails; after MaxReconnects of them the connection is
\* closed and what its buffer held is dropped.
ReconnectFails ==
    /\ transport.state = "reconnecting"
    /\ transport' =
          IF transport.attempts + 1 >= MaxReconnects
          THEN [transport EXCEPT !.state = "closed", !.attempts = @ + 1, !.pending = {}]
          ELSE [transport EXCEPT !.attempts = @ + 1]
    /\ UNCHANGED <<wire, held, appended, statusReq, expired, threads, regVars, busVars,
                   planVars,
                   chatVars>>

\* A reconnect attempt succeeds: the reconnect buffer is written to the server.
Reconnects ==
    /\ transport.state = "reconnecting"
    /\ transport' =
          [transport EXCEPT
              !.state = "connected", !.attempts = 0, !.pending = {},
              !.msgs = [i \in DOMAIN transport.msgs |->
                          IF i \in transport.pending
                          THEN [transport.msgs[i] EXCEPT !.delivered = TRUE]
                          ELSE transport.msgs[i]]]
    /\ UNCHANGED <<wire, held, appended, statusReq, expired, threads, regVars, busVars,
                   planVars,
                   chatVars>>

\* NATSClient.Publish is called.
CallPublish(marshals, bufferFull) ==
    /\ Len(transport.msgs) < MaxPublishes
    /\ LET r == Publish(transport.state, marshals, bufferFull)
           i == Len(transport.msgs) + 1
       IN  transport' =
             [transport EXCEPT
                 !.msgs = Append(@, [state |-> transport.state, marshals |-> marshals,
                                     err |-> r.err, delivered |-> r.delivered]),
                 !.pending = IF r.buffered THEN @ \cup {i} ELSE @]
    /\ UNCHANGED <<wire, held, appended, statusReq, expired, threads, regVars, busVars,
                   planVars,
                   chatVars>>

\* NATSClient.Request is called and returns.
CallRequest(marshals, replied) ==
    /\ transport' = [transport EXCEPT
                        !.request = Request(transport.state, marshals, replied)
                                        @@ [marshals |-> marshals]]
    /\ transport'.request # transport.request
    /\ UNCHANGED <<wire, held, appended, statusReq, expired, threads, regVars, busVars,
                   planVars,
                   chatVars>>

\* NATSClient.Close.
CallClose ==
    /\ transport.state # "closed"
    /\ transport' = [transport EXCEPT !.state = "closed", !.pending = {}]
    /\ UNCHANGED <<wire, held, appended, statusReq, expired, threads, regVars, busVars,
                   planVars,
                   chatVars>>

\* The bus before any event has come in: nothing is due for delivery, no
\* callback has run.
NoWire == [inbound |-> 0, delivered |-> 0, queue |-> <<>>, handled |-> 0, last |-> <<>>]

\* The state of what stands outside the chat handler, the registry and the
\* plan store, before anything has happened.
InitAux ==
    /\ held = NoHeld
    /\ appended = <<>>
    /\ statusReq = [r \in StatusEvents |-> NoStatus]
    /\ expired = [e \in Events |-> ""]
    /\ transport = NewNATSClient
    /\ threads = [g \in Goroutines |-> NoCall]
    /\ wire = NoWire

\* ------------------------------------------------------------ specification

Init ==
    /\ clientSource \in {"stateless", "session"}
    /\ handlers = setupEventHandlers.handlers
    /\ subs = setupEventHandlers.subs
    /\ pc = [e \in Events |-> "idle"]
    /\ event = [e \in Events |-> NoEvent]
    /\ conversationHistory = [e \in Events |-> <<>>]
    /\ intentRequests = [e \in Events |-> <<>>]
    /\ intentOutcome = [e \in Events |-> NoOutcome]
    /\ execCalls = [e \in Events |-> 0]
    /\ execResult = [e \in Events |-> NoExec]
    /\ published = [e \in Events |-> <<>>]
    /\ earlier = [e \in Events |-> {}]
    /\ sessionHistory = <<>>
    /\ arrived = [m \in Messages |-> ""]
    /\ sent = [m \in Messages |-> NotSent]
    /\ runs = [m \in Messages |-> <<>>]
    /\ calls = [m \in Messages |-> [h \in RegHandlers |-> 0]]
    /\ InitPlans
    /\ InitAux

Next ==
    \E e \in Events :
        \/ Deliver(e)
        \/ RequestIntentAnalysis(e)
        \/ ReadSessionHistory(e)
        \/ AppendUserMessage(e)
        \/ RequestIntentAnalysisSession(e)
        \/ IntentReturns(e)
        \/ ExecuteReturns(e)

Spec == Init /\ [][Next]_vars

\* The behaviours in which every handler that can take a step takes it:
\* goroutines run, c.nats.Request returns within its 30 second timeout, and the
\* provider calls of the executor return.  The arrival of events is not forced.
ChatStep(e) ==
    \/ RequestIntentAnalysis(e)
    \/ ReadSessionHistory(e)
    \/ AppendUserMessage(e)
    \/ RequestIntentAnalysisSession(e)
    \/ IntentReturns(e)
    \/ ExecuteReturns(e)

FairSpec == Spec /\ \A e \in Events : WF_vars(ChatStep(e))

\* ------------------------------------------------ the pipeline and deadlines

\* The deadline of the chat turn of event e passes while the handler waits for
\* the classification reply or for the executor.  The handler takes no
\* deadline: it calls both with context.Background(), and
\* RequestIntentAnalysis does not read its ctx; so nothing of the program
\* changes, and only the step that was pending is noted.
DeadlineExpires(e) ==
    /\ expired[e] = ""
    /\ pc[e] \in {"await_intent", "executing"}
    /\ expired' = [expired EXCEPT
                      ![e] = IF pc[e] = "await_intent" THEN "classify" ELSE "execute"]
    /\ UNCHANGED <<wire, held, appended, statusReq, transport, threads, regVars, busVars,
                   planVars,
                   chatVars>>

NextDeadline ==
    \E e \in Events :
        \/ Deliver(e)
        \/ RequestIntentAnalysis(e)
        \/ ReadSessionHistory(e)
        \/ AppendUserMessage(e)
        \/ RequestIntentAnalysisSession(e)
        \/ IntentReturns(e)
        \/ ExecuteReturns(e)
        \/ DeadlineExpires(e)

SpecDeadline == Init /\ [][NextDeadline]_vars

\* --------------------------------------- the executor over any CDNProvider

\* A step of a handler, while the process runs: no goroutine has panicked
\* (nothing in the repository calls recover).
Alive(step) == (\A e \in Events : pc[e] # "panicked") /\ step

NextAnyProvider ==
    \E e \in Events :
        \/ Alive(Deliver(e))
        \/ Alive(RequestIntentAnalysis(e))
        \/ Alive(ReadSessionHistory(e))
        \/ Alive(AppendUserMessage(e))
        \/ Alive(RequestIntentAnalysisSession(e))
        \/ Alive(IntentReturns(e))
        \/ Alive(ExecuteReturnsAnyProvider(e))

SpecAnyProvider == Init /\ [][NextAnyProvider]_vars

\* ------------------------------------------- one subscription, one goroutine

\* The positions at which a chat handler has not returned to the callback of
\* the subscription that called it.
Running == {"handling", "have_history", "appended", "await_intent", "executing"}

\* Delivery as the one subscription of cdnbuddy.chat makes it: the callback
\* subscribe passes to Subscribe calls the handlers in its own loop, with no
\* goroutine of their own, and the subscription calls its callback for the
\* next message when the call for the previous one has returned.
DeliverSerial(e) ==
    /\ \A d \in Events : pc[d] \notin Running
    /\ Deliver(e)

NextSerial ==
    \E e \in Events :
        \/ DeliverSerial(e)
        \/ RequestIntentAnalysis(e)
        \/ ReadSessionHistory(e)
        \/ AppendUserMessage(e)
        \/ RequestIntentAnalysisSession(e)
        \/ IntentReturns(e)
        \/ ExecuteReturns(e)

SpecSerial == Init /\ [][NextSerial]_vars

\* -------------------------------------------------- the Subscriber taken alone

\* The subjects handlers are registered on when the Subscriber is taken alone.
RegSubjects == {RegisterSubject(f) : f \in Families}

\* What the typed handler of a registration returns: nil or an error.
TypedResults == {"ok", "handler_error"}

\* A messageHandler that calls the typed handler with the zero event when the
\* payload does not decode.
messageHandlerIgnoresDecodeError(wellFormed, typedResult) ==
    [typed |-> TRUE, result |-> typedResult]

\* The messageHandler a register function wraps the typed handler in: it
\* decodes the payload, returns the decode error without calling the typed
\* handler, and otherwise returns what the typed handler returns.
messageHandler(wellFormed, typedResult) ==
    IF ~wellFormed THEN [typed |-> FALSE, result |-> "decode_error"]
    ELSE [typed |-> TRUE, result |-> typedResult]

\* What one call of a registered messageHandler does: it returns nil, the typed
\* handler returns an error, or the payload does not decode.
HandlerResults ==
    {messageHandler(wellFormed, typedResult).result :
        wellFormed \in BOOLEAN, typedResult \in TypedResults}

RECURSIVE Registered(_, _)
\* Number of handlers in the registry over the subjects of S.
Registered(reg, S) ==
    IF S = {} THEN 0
    ELSE LET s == CHOOSE x \in S : TRUE
         IN  Len(reg[s]) + Registered(reg, S \ {s})

\* A run of a subscription's callback: the handlers its loop ranges over, the
\* index of the handler it calls next (0: the loop was left early), the
\* results of the handlers it has called so far, and the number of calls of
\* typed handlers among them.
NewRun == [started |-> FALSE, hs |-> <<>>, next |-> 1, results |-> <<>>, typed |-> 0]

\* The loop of the callback stops at the first handler that fails.
NextHandlerStopsOnError(i, result) == IF result = "ok" THEN i + 1 ELSE 0

\* The index of the handler the loop of the callback goes to after handler i
\* returned result: an error is logged and the loop goes on.
NextHandler(i, result) == i + 1

\* One of the Register functions is called with a new handler: subscribe.
Register(subject, subscribed) ==
    /\ Registered(handlers, RegSubjects) < MaxRegistrations
    /\ LET h == HandlerOf(Registered(handlers, RegSubjects) + 1)
           r == subscribe([handlers |-> handlers, subs |-> subs, err |-> FALSE],
                          subject, h, subscribed)
       IN  /\ handlers' = r.handlers
           /\ subs' = r.subs
    /\ UNCHANGED <<auxVars, busVars, chatVars, planVars>>

\* Message m arrives on a subject: the bus hands it to the callback of every
\* subscription of the subject, once.
Arrive(m, subject) ==
    /\ arrived[m] = ""
    /\ subs[subject] > 0
    /\ arrived' = [arrived EXCEPT ![m] = subject]
    /\ runs' = [runs EXCEPT ![m] = [k \in 1..subs[subject] |-> NewRun]]
    /\ \E wellFormed \in BOOLEAN :
          sent' = [sent EXCEPT ![m] = [family |-> "", wellFormed |-> wellFormed,
                                       registered |-> TRUE]]
    /\ UNCHANGED <<auxVars, regVars, calls, chatVars, planVars>>

\* The typed publisher (or the request helper) of a family sends message m: it
\* goes to the callbacks of the subscriptions of the subject it is sent on.
PublishTyped(m, f) ==
    /\ arrived[m] = ""
    /\ arrived' = [arrived EXCEPT ![m] = PublishSubject(f)]
    /\ runs' = [runs EXCEPT ![m] = [k \in 1..subs[PublishSubject(f)] |-> NewRun]]
    /\ sent' = [sent EXCEPT ![m] = [family |-> f, wellFormed |-> TRUE,
                                    registered |-> subs[RegisterSubject(f)] > 0]]
    /\ UNCHANGED <<auxVars, regVars, calls, chatVars, planVars>>

\* The callback of subscription k starts on message m: its loop ranges over the
\* handlers registered for the subject at that time.
CallbackStart(m, k) ==
    /\ k \in DOMAIN runs[m]
    /\ ~runs[m][k].started
    /\ runs' = [runs EXCEPT ![m][k] = [started |-> TRUE, hs |-> handlers[arrived[m]],
                                      next |-> 1, results |-> <<>>, typed |-> 0]]
    /\ UNCHANGED <<auxVars, regVars, arrived, calls, sent, chatVars, planVars>>

\* The loop of the callback calls its next handler with the payload of m.
CallHandler(m, k) ==
    /\ k \in DOMAIN runs[m]
    /\ runs[m][k].started
    /\ LET run == runs[m][k]
           i == run.next
       IN  /\ i \in 1..Len(run.hs)
           /\ \E typedResult \in TypedResults :
                LET r == messageHandler(sent[m].wellFormed, typedResult)
                IN  runs' = [runs EXCEPT ![m][k].results = Append(@, r.result),
                                         ![m][k].next = NextHandler(i, r.result),
                                         ![m][k].typed = IF r.typed THEN @ + 1 ELSE @]
           /\ calls' = [calls EXCEPT ![m][run.hs[i]] = @ + 1]
    /\ UNCHANGED <<auxVars, regVars, arrived, sent, chatVars, planVars>>

InitRegistry ==
    /\ clientSource = "stateless"
    /\ handlers = NewSubscriber.handlers
    /\ subs = NewSubscriber.subs
    /\ pc = [e \in Events |-> "idle"]
    /\ event = [e \in Events |-> NoEvent]
    /\ conversationHistory = [e \in Events |-> <<>>]
    /\ intentRequests = [e \in Events |-> <<>>]
    /\ intentOutcome = [e \in Events |-> NoOutcome]
    /\ execCalls = [e \in Events |-> 0]
    /\ execResult = [e \in Events |-> NoExec]
    /\ published = [e \in Events |-> <<>>]
    /\ earlier = [e \in Events |-> {}]
    /\ sessionHistory = <<>>
    /\ arrived = [m \in Messages |-> ""]
    /\ sent = [m \in Messages |-> NotSent]
    /\ runs = [m \in Messages |-> <<>>]
    /\ calls = [m \in Messages |-> [h \in RegHandlers |-> 0]]
    /\ InitPlans
    /\ InitAux

NextRegistry ==
    \/ \E subject \in RegSubjects, subscribed \in BOOLEAN : Register(subject, subscribed)
    \/ \E m \in Messages, subject \in RegSubjects : Arrive(m, subject)
    \/ \E m \in Messages, f \in Families : PublishTyped(m, f)
    \/ \E m \in Messages, k \in 1..MaxRegistrations : CallbackStart(m, k)
    \/ \E m \in Messages, k \in 1..MaxRegistrations : CallHandler(m, k)

SpecRegistry == InitRegistry /\ [][NextRegistry]_vars

\* --------------------------------------------------- the plan store taken alone

\* The plans given to Store: the plans that were built.
BuiltPlans == {built[i] : i \in DOMAIN built}

\* The ids Get and Delete are called with: those of the built plans and one
\* that no plan has.
AskedIDs == {p.ID : p \in BuiltPlans} \cup {"plan_none"}

\* The plan stored under an id and not deleted since, whether swept or not.
Logical(planID) == IF planID \in DOMAIN stored THEN stored[planID] ELSE NoPlan

\* Where the clock stands against the expires_at of the plan of an id: before
\* it, at it or after it ("none" when the id has no plan).
When(planID) ==
    IF ~Live(Logical(planID)) THEN "none"
    ELSE IF clock < Logical(planID).ExpiresAt THEN "before"
    ELSE IF clock = Logical(planID).ExpiresAt THEN "at"
    ELSE "after"

\* Time passes.
Tick ==
    /\ clock < MaxClock
    /\ clock' = clock + 1
    /\ UNCHANGED <<auxVars, plans, sweep, built, stored, lastOp, kept, regVars, busVars, chatVars>>

\* BuildExecutionPlan is called; the clock may advance between its readings.
Build(intent) ==
    /\ Len(built) < MaxBuilds
    /\ \E a, b \in 0..1 :
        /\ clock + a + b <= MaxClock
        /\ built' = Append(built,
                           BuildExecutionPlan(intent, clock, clock + a, clock + a + b))
        /\ clock' = clock + a + b
    /\ UNCHANGED <<auxVars, plans, sweep, stored, lastOp, kept, regVars, busVars, chatVars>>

\* Store is called with a plan (s.mu must be free).
CallStore(plan) ==
    /\ sweep.pc = "wait"
    /\ plans' = Store(plans, plan).plans
    /\ stored' = MapSet(stored, plan.ID, plan)
    /\ lastOp' = [op |-> "store", id |-> plan.ID, when |-> When(plan.ID),
                  present |-> plan.ID \in DOMAIN plans, logical |-> Logical(plan.ID),
                  plan |-> plan, err |-> Store(plans, plan).err]
    /\ kept' = kept \ {plan.ID}
    /\ UNCHANGED <<auxVars, clock, sweep, built, regVars, busVars, chatVars>>

\* Get is called with an id (s.mu must not be held by a writer).
CallGet(planID) ==
    /\ sweep.pc = "wait"
    /\ lastOp' = [op |-> "get", id |-> planID, when |-> When(planID),
                  present |-> planID \in DOMAIN plans, logical |-> Logical(planID),
                  plan |-> Get(plans, clock, planID).plan,
                  err |-> Get(plans, clock, planID).err]
    /\ UNCHANGED <<auxVars, clock, plans, sweep, built, stored, kept, regVars, busVars, chatVars>>

\* Delete is called with an id (s.mu must be free).
CallDelete(planID) ==
    /\ sweep.pc = "wait"
    /\ plans' = Delete(plans, planID)
    /\ stored' = IF planID \in DOMAIN stored THEN MapSet(stored, planID, Deleted)
                 ELSE stored
    /\ lastOp' = [op |-> "delete", id |-> planID, when |-> When(planID),
                  present |-> planID \in DOMAIN plans, logical |-> Logical(planID),
                  plan |-> NoPlan, err |-> NoError]
    /\ kept' = kept \ {planID}
    /\ UNCHANGED <<auxVars, clock, sweep, built, regVars, busVars, chatVars>>

\* The ticker of cleanupExpired fires: it takes s.mu and reads the clock.
SweepTick ==
    /\ sweep.pc = "wait"
    /\ sweep' = [pc |-> "locked", now |-> clock, todo |-> DOMAIN plans]
    /\ UNCHANGED <<auxVars, clock, plans, built, stored, lastOp, kept, regVars, busVars, chatVars>>

\* The loop of cleanupExpired visits one entry of the map.
SweepVisit(planID) ==
    /\ sweep.pc = "locked"
    /\ planID \in sweep.todo
    /\ plans' = IF SweepRemoves(sweep.now, plans[planID])
                THEN MapDelete(plans, planID) ELSE plans
    /\ sweep' = [sweep EXCEPT !.todo = @ \ {planID}]
    /\ kept' = IF SweepRemoves(sweep.now, plans[planID]) THEN kept ELSE kept \cup {planID}
    /\ UNCHANGED <<auxVars, clock, built, stored, lastOp, regVars, busVars, chatVars>>

\* The loop of cleanupExpired is over: it releases s.mu and waits again.
SweepUnlock ==
    /\ sweep.pc = "locked"
    /\ sweep.todo = {}
    /\ sweep' = SweepWaiting
    /\ UNCHANGED <<auxVars, clock, plans, built, stored, lastOp, kept, regVars, busVars, chatVars>>

InitPlanStore == InitRegistry

NextPlans ==
    \/ Tick
    \/ \E intent \in BuildIntents : Build(intent)
    \/ \E plan \in BuiltPlans : CallStore(plan)
    \/ \E planID \in AskedIDs : CallGet(planID)
    \/ \E planID \in AskedIDs : CallDelete(planID)
    \/ SweepTick
    \/ \E planID \in DOMAIN plans : SweepVisit(planID)
    \/ SweepUnlock

SpecPlans == InitPlanStore /\ [][NextPlans]_vars

\* ---------------------------------------------- BuildExecutionPlan taken alone

\* What the parameter map of a classification response has under a key: no
\* entry, a nil pointer, or a text.
Absent == "<absent>"
DomainValues == {Absent, Nil, "example.com", "shop.example.org"}
OriginValues == {Absent, Nil, "origin.example.com", "example.com"}

\* The parameter map with the given entries for "domain" and "origin".
ParamsOf(domain, origin) ==
    [k \in {key \in {"domain", "origin"} :
               (key = "domain" /\ domain # Absent) \/ (key = "origin" /\ origin # Absent)}
        |-> IF k = "domain" THEN domain ELSE origin]

\* The classification responses BuildExecutionPlan is called with.
PlanIntents ==
    {[Status |-> "READY", Action |-> action, UserMessage |-> "",
      Parameters |-> ParamsOf(domain, origin)] :
        action \in {Nil, "SETUP_CDN", "PURGE_CACHE", "GET_STATUS"},
        domain \in DomainValues, origin \in OriginValues}

\* BuildExecutionPlan is called, once.
BuildOne(intent) ==
    /\ built = <<>>
    /\ Build(intent)

NextBuild ==
    \/ Tick
    \/ \E intent \in PlanIntents : BuildOne(intent)

SpecBuild == InitRegistry /\ [][NextBuild]_vars

\* ---------------------------------------------- the status handler taken alone

NextStatus ==
    \/ \E r \in StatusEvents, userID \in Users, sessionID \in Sessions :
          StatusRequestArrives(r, userID, sessionID)
    \/ \E r \in StatusEvents, outcome \in ListOutcomes : ListServicesReturns(r, outcome)

SpecStatus == InitRegistry /\ [][NextStatus]_vars

\* -------------------------------------------------- the session store taken alone

NextSessions ==
    \/ \E sessionID \in Sessions, turn \in SessionTurns :
          CallAppend(sessionID, turn.Role, turn.Message)
    \/ \E sessionID \in Sessions : CallGetHistory(sessionID)
    \/ \E i \in 1..MaxTurns : CallerOverwrites(i)
    \/ CallerAppends
    \/ \E sessionID \in Sessions : CallClear(sessionID)

SpecSessions == InitRegistry /\ [][NextSessions]_vars

\* ------------------------------------- the session store under concurrent calls

NextLocked ==
    \/ \E g \in Goroutines, op \in {"append", "get", "clear"},
           sessionID \in Sessions, turn \in SessionTurns \cup {Scribble} :
          CallSession(g, op, sessionID, turn)
    \/ \E g \in Goroutines : AcquireLock(g)
    \/ \E g \in Goroutines : AppendReads(g)
    \/ \E g \in Goroutines : AppendWrites(g)
    \/ \E g \in Goroutines : GetReturns(g)
    \/ \E g \in Goroutines : ClearReturns(g)

SpecLocked == InitRegistry /\ [][NextLocked]_vars

\* ------------------------------------------- the handlers registered at startup

\* The events that come in from other processes, and the callback runs made,
\* when the handlers of setupEventHandlers are taken with the bus around them.
MaxInbound == 2
MaxHandled == 4

\* The subjects a message can be published on: the subjects of the registry
\* and the three this process only sends on.
BusSubjects == Subjects \cup {SubjectChatResponse, SubjectStatusResponse, SubjectIntentAnalyze}

\* The values of the Type field of an event, and one that is none of them.
EventTypes ==
    {"cdn_service.created", "cdn_service.updated", "cdn_service.deleted",
     "domain.added", "domain.removed", "domain.status_changed",
     "cache.purged", "cache.rules_updated", "metrics.updated",
     "operation.started", "operation.progress", "operation.completed",
     "operation.failed", "chat.message", EventAIResponse, "execution_plan.created", ""}

\* Number of subscriptions this process holds on a subject of the bus.
Subscriptions(subject) == IF subject \in DOMAIN subs THEN subs[subject] ELSE 0

\* One publish, or one request, of a handler.
PublishOn(subject) == [kind |-> "publish", subject |-> subject]
RequestOn(subject) == [kind |-> "request", subject |-> subject]

\* Startup handlers whose chat handler publishes its reply on the chat subject.
HandlerSendsRepliesOnChat(h, type) ==
    CASE h = ChatHandler -> <<RequestOn(SubjectIntentAnalyze), PublishOn(SubjectChat)>>
      [] h = "status_request" -> <<PublishOn(SubjectStatusResponse)>>
      [] OTHER -> <<>>

\* What a run of a typed handler of setupEventHandlers gives to the bus for an
\* event of a type: the execution plan handler nothing; the chat handler its
\* intent request and then one SendAIResponse, in every branch; the operation,
\* service, domain and cache handlers one SendAIResponse for the types of their
\* switch and nothing for any other; the status handler one
\* PublishStatusResponse, whether the listing failed or not.
HandlerSends(h, type) ==
    LET reply == <<PublishOn(SendAIResponse("u1", "current_session", <<"text">>).subject)>>
    IN  CASE h = "execution_plan" -> <<>>
          [] h = ChatHandler -> <<RequestOn(SubjectIntentAnalyze)>> \o reply
          [] h = "operation" ->
                IF type \in {"operation.started", "operation.progress",
                             "operation.completed", "operation.failed"}
                THEN reply ELSE <<>>
          [] h = "cdn_service" ->
                IF type \in {"cdn_service.created", "cdn_service.updated",
                             "cdn_service.deleted"}
                THEN reply ELSE <<>>
          [] h = "domain" ->
                IF type \in {"domain.added", "domain.status_changed"} THEN reply ELSE <<>>
          [] h = "cache" -> IF type = "cache.purged" THEN reply ELSE <<>>
          [] h = "status_request" ->
                <<PublishOn(PublishStatusResponse("u1", "s1", <<>>).subject)>>

\* The deliveries a message on a subject makes in this process: one to the
\* callback of each subscription of the subject.
Deliveries(subject, type, wellFormed, from) ==
    [k \in 1..Subscriptions(subject) |->
        [subject |-> subject, type |-> type, wellFormed |-> wellFormed, from |-> from]]

RECURSIVE SendsOf(_, _, _)
\* What the loop of a callback gives to the bus: what each handler of the
\* subject sends, in the order of the registry; a handler whose payload does
\* not decode is not run.
SendsOf(hs, type, wellFormed) ==
    IF hs = <<>> THEN <<>>
    ELSE (IF messageHandler(wellFormed, "ok").typed
          THEN HandlerSends(Head(hs), type) ELSE <<>>)
         \o SendsOf(Tail(hs), type, wellFormed)

RECURSIVE Caused(_)
\* The deliveries in this process that a sequence of sends causes.
Caused(sends) ==
    IF sends = <<>> THEN <<>>
    ELSE Deliveries(Head(sends).subject, "", TRUE, "self") \o Caused(Tail(sends))

\* Another process publishes an event on a subject of the bus.
InboundArrives(subject, type, wellFormed) ==
    /\ wire.inbound < MaxInbound
    /\ wire' = [wire EXCEPT !.inbound = @ + 1,
                            !.delivered = @ + Subscriptions(subject),
                            !.queue = @ \o Deliveries(subject, type, wellFormed, "bus")]
    /\ UNCHANGED <<held, appended, statusReq, expired, transport, threads,
                   regVars, busVars, chatVars, planVars>>

\* The callback of a subscription runs on the delivery that is due first: every
\* handler of the subject is called, and what the handlers publish goes to the
\* bus, which delivers it to the subscriptions of its subject.
CallbackRuns ==
    /\ wire.queue # <<>>
    /\ wire.handled < MaxHandled
    /\ LET msg == Head(wire.queue)
           sends == SendsOf(handlers[msg.subject], msg.type, msg.wellFormed)
       IN  wire' = [wire EXCEPT !.queue = Tail(@) \o Caused(sends),
                                !.handled = @ + 1,
                                !.last = sends]
    /\ UNCHANGED <<held, appended, statusReq, expired, transport, threads,
                   regVars, busVars, chatVars, planVars>>

NextHandlers ==
    \/ \E subject \in BusSubjects, type \in EventTypes, wellFormed \in BOOLEAN :
          InboundArrives(subject, type, wellFormed)
    \/ CallbackRuns

SpecHandlers == Init /\ [][NextHandlers]_vars

\* --------------------------------------------------- the transport taken alone

NextTransport ==
    \/ Disconnects
    \/ ReconnectFails
    \/ Reconnects
    \/ \E marshals, bufferFull \in BOOLEAN : CallPublish(marshals, bufferFull)
    \/ \E marshals, replied \in BOOLEAN : CallRequest(marshals, replied)
    \/ CallClose

SpecTransport == InitRegistry /\ [][NextTransport]_vars

\* The behaviours in which the library, while reconnecting, goes on to its
\* next attempt: it makes one every ReconnectWait until one succeeds or
\* MaxReconnects of them have failed.
FairSpecTransport == SpecTransport /\ WF_vars(ReconnectFails \/ Reconnects)

\* ------------------------------------------------------------------- claims

Decoded(e) == pc[e] \notin {"idle", "dropped"}
Replied(e) == intentOutcome[e].kind = "reply"
Response(e) == intentOutcome[e].response
ReadyWithAction(r) == r.Status = "READY" /\ r.Action # Nil

\* The AI-response the chat handler owes event e, with the given text.
ReplyTo(e, text) ==
    [subject |-> SubjectChatResponse,
     event |-> [Type |-> EventAIResponse, UserID |-> event[e].UserID,
                SessionID |-> event[e].SessionID, Message |-> text]]

\* C1: a chat event that decodes gets exactly one AI-response event, published
\* on the chat-response subject: none before the handler is done with it, one
\* once it is, and never two, whatever branch the handler took.
C1_ExactlyOneReply ==
    \A e \in Events :
        /\ Len(published[e]) <= 1
        /\ pc[e] = "done" =>
            /\ Len(published[e]) = 1
            /\ published[e][1].subject = SubjectChatResponse
            /\ published[e][1].event.Type = EventAIResponse
        /\ pc[e] # "done" => published[e] = <<>>

\* C1 witness: two events are done, one answered after a failed classification
\* and one after the executor ran, each with its one reply.
C1_Witness ==
    \E e, d \in Events :
        /\ pc[e] = "done" /\ ~Replied(e) /\ Len(published[e]) = 1
        /\ pc[d] = "done" /\ Replied(d) /\ execCalls[d] = 1 /\ Len(published[d]) = 1

C5_ExecutorOnlyWhenReady ==
    \A e \in Events :
        /\ execCalls[e] <= 1
        /\ execCalls[e] = 1 => Replied(e) /\ ReadyWithAction(Response(e))

\* C5 witness: one event had the executor called, another is done with an ERROR
\* response that names an action and had no executor call.
C5_Witness ==
    \E e, d \in Events :
        /\ execCalls[e] = 1 /\ pc[e] = "done"
        /\ pc[d] = "done" /\ Replied(d) /\ Response(d).Status = "ERROR"
        /\ Response(d).Action = "SETUP_CDN" /\ execCalls[d] = 0

\* C6: when the status is ERROR, NEEDS_INFO, READY without an action, or a
\* status the switch does not know, the reply text is the user_message of the
\* response.
C6_ReplyIsUserMessage ==
    \A e \in Events :
        (pc[e] = "done" /\ Replied(e) /\ ~ReadyWithAction(Response(e))) =>
            published[e] = <<ReplyTo(e, <<Response(e).UserMessage>>)>>

\* C6 witness: an event with an unknown status and one with READY and no action
\* are done and answered.
C6_Witness ==
    \E e, d \in Events :
        /\ pc[e] = "done" /\ Replied(e) /\ Response(e).Status = "DONE"
        /\ Response(e).UserMessage = "Which domain?"
        /\ pc[d] = "done" /\ Replied(d) /\ Response(d).Status = "READY"
        /\ Response(d).Action = Nil

\* C7: when the status is READY with an action, the reply text is the result of
\* the executor when it returned one, and the failure template followed by the
\* error when it returned an error; it is not the user_message.
C7_ReplyIsExecutorOutcome ==
    \A e \in Events :
        (pc[e] = "done" /\ Replied(e) /\ ReadyWithAction(Response(e))) =>
            /\ Len(published[e]) = 1
            /\ LET text == published[e][1].event.Message
               IN  /\ ~execResult[e].err => text = execResult[e].text
                   /\ execResult[e].err =>
                        /\ text[1] = "Failed to complete action: "
                        /\ SubSeq(text, 2, Len(text)) = execResult[e].text
                   /\ text # <<Response(e).UserMessage>>

\* C7 witness: one event is done with the result of the executor, another with
\* an error of the executor.
C7_Witness ==
    \E e, d \in Events :
        /\ pc[e] = "done" /\ execCalls[e] = 1 /\ ~execResult[e].err
        /\ pc[d] = "done" /\ execCalls[d] = 1 /\ execResult[d].err

\* C8: when the intent request failed by timeout or transport error, the
\* handler made one request only, did not call the executor, and published
\* exactly one reply, the fallback apology.
C8_FallbackOnFailedRequest ==
    \A e \in Events :
        intentOutcome[e].kind \in {"timeout", "transport"} =>
            /\ Len(intentRequests[e]) = 1
            /\ execCalls[e] = 0
            /\ published[e] = <<ReplyTo(e, FallbackApology)>>

\* C8 witness: one request timed out and another met a transport error.
C8_Witness ==
    \E e, d \in Events :
        /\ intentOutcome[e].kind = "timeout" /\ pc[e] = "done"
        /\ intentOutcome[d].kind = "transport" /\ pc[d] = "done"

Turns(sessionID) == getSessionHistory(sessionHistory, sessionID)
Holds(seq, x) == \E i \in DOMAIN seq : seq[i] = x

\* C9: when the intent request of an event timed out, the history of the
\* session of the event holds the user's turn of that event.
C9_TurnKeptOnTimeout ==
    \A e \in Events :
        intentOutcome[e].kind = "timeout" =>
            Holds(Turns(event[e].SessionID), UserTurn(event[e].Message))

\* C10: the intent request of an event carries the user turn of every event of
\* the same session whose handler had returned when this event arrived.
C10_RequestCarriesHistory ==
    \A e \in Events :
        intentRequests[e] # <<>> =>
            \A d \in earlier[e] :
                (Decoded(d) /\ event[d].SessionID = event[e].SessionID) =>
                    Holds(intentRequests[e][1].ConversationHistory,
                          UserTurn(event[d].Message))

\* A run of a callback has left its loop.
Finished(run) == run.started /\ run.next \notin 1..Len(run.hs)

\* C3: when two handlers are registered for one subject, a callback run for a
\* message whose first handler returned an error still calls the second
\* handler; the error stays in the callback, so the message is handed to each
\* subscription's callback once and never again.
C3_BothHandlersRunOnError ==
    \A m \in Messages :
        /\ Len(runs[m]) <= (IF arrived[m] = "" THEN 0 ELSE subs[arrived[m]])
        /\ \A k \in DOMAIN runs[m] :
              LET run == runs[m][k]
              IN  (Finished(run) /\ Len(run.hs) = 2 /\ run.results[1] # "ok")
                      => /\ Len(run.results) = 2
                         /\ calls[m][run.hs[2]] >= 1

C3_Witness ==
    \E m \in Messages : \E k \in DOMAIN runs[m] :
        /\ Finished(runs[m][k])
        /\ Len(runs[m][k].hs) = 2
        /\ runs[m][k].hs[1] # runs[m][k].hs[2]
        /\ runs[m][k].results[1] = "handler_error"
        /\ Len(runs[m][k].results) = 2

\* C4: for one inbound message on a subject, every registered handler is
\* called at most once.
C4_AtMostOncePerMessage ==
    \A m \in Messages : \A h \in RegHandlers : calls[m][h] <= 1

\* C11: every AI-response published for a chat event carries the user id and
\* the session id of that event, also when chat events of other users and
\* sessions are being handled at the same time.
C11_ReplyAddressedToSender ==
    \A e \in Events : \A i \in DOMAIN published[e] :
        /\ published[e][i].event.UserID = event[e].UserID
        /\ published[e][i].event.SessionID = event[e].SessionID

\* C11 witness: two events of different users and sessions are answered, the
\* later one having arrived while the handler of the earlier one was running.
C11_Witness ==
    \E d, e \in Events :
        /\ d < e /\ d \notin earlier[e]
        /\ pc[d] = "done" /\ pc[e] = "done"
        /\ event[d].UserID # event[e].UserID
        /\ event[d].SessionID # event[e].SessionID
        /\ published[d] # <<>> /\ published[e] # <<>>

\* The last call was a Get of an id that has a plan, stored and not deleted.
GotLive == lastOp.op = "get" /\ Live(lastOp.logical)

\* C12: a Get of an id at a time before the expires_at of the plan last stored
\* under it, with no Delete since, returns that plan and no error, whatever
\* sweeps ran in between.
C12_GetBeforeExpiry ==
    (GotLive /\ lastOp.when = "before") =>
        /\ lastOp.err = NoError
        /\ lastOp.plan = lastOp.logical

\* C12 witness: a Get returned the plan of an id that a sweep had visited since
\* the plan was stored.
C12_Witness ==
    /\ GotLive /\ lastOp.when = "before"
    /\ lastOp.id \in kept
    /\ lastOp.plan = lastOp.logical

\* C13 as stated: a Get of an id after the expires_at of its plan, the plan
\* never deleted, returns the 'plan expired' error, swept or not.
C13_ExpiredAfterExpiry ==
    (GotLive /\ lastOp.when = "after") => lastOp.err = ErrExpired(lastOp.id)

\* C13 as amended: a Get of an id after the expires_at of its plan, the plan
\* never deleted, returns no plan: the 'plan expired' error while the entry is
\* in the map, the 'plan not found' error once a sweep has removed it.
C13_ExpiredOrSwept ==
    (GotLive /\ lastOp.when = "after") =>
        /\ lastOp.plan = NoPlan
        /\ lastOp.present => lastOp.err = ErrExpired(lastOp.id)
        /\ ~lastOp.present => lastOp.err = ErrNotFound(lastOp.id)

\* C13 witness: a Get after expires_at of a plan that a sweep had removed.
C13_Witness ==
    /\ GotLive /\ lastOp.when = "after"
    /\ ~lastOp.present
    /\ lastOp.err = ErrNotFound(lastOp.id)

\* C14: a Get of an id that is in the map returns an error and no plan when
\* the clock is at or after the expires_at of the plan.
C14_NoPlanAtOrAfterExpiry ==
    (GotLive /\ lastOp.present /\ lastOp.when \in {"at", "after"}) =>
        /\ lastOp.err # NoError
        /\ lastOp.plan = NoPlan

\* C15: Delete removes the entry of its id at once, expired or not; until the
\* id is stored again every Get of it returns the 'plan not found' error; and a
\* Delete of an id that is not in the map leaves the map as it was.
C15_DeleteRemoves ==
    /\ [](/\ lastOp.op = "delete" => lastOp.id \notin DOMAIN plans
          /\ (lastOp.op = "get" /\ lastOp.logical = Deleted) =>
                /\ lastOp.err = ErrNotFound(lastOp.id)
                /\ lastOp.plan = NoPlan)
    /\ [][(lastOp' # lastOp /\ lastOp'.op = "delete" /\ ~lastOp'.present)
            => plans' = plans]_vars

\* C15 witness: a Get of an id whose plan was deleted before it expired.
C15_Witness ==
    /\ lastOp.op = "get" /\ lastOp.logical = Deleted
    /\ lastOp.err = ErrNotFound(lastOp.id)
    /\ \E i \in DOMAIN built : built[i].ID = lastOp.id /\ clock < built[i].ExpiresAt

\* C16: no step of a sweep removes an entry whose expires_at is still ahead of
\* the clock, whatever Store, Get and Delete calls and sweeps came before.
C16_SweepKeepsUnexpired ==
    [][sweep.pc = "locked" =>
          \A id \in DOMAIN plans \ DOMAIN plans' : ~(clock < plans[id].ExpiresAt)]_vars

\* C16 witness: a sweep is through with the map and has left in it a plan that
\* was stored, before the sweep took the lock, under the id of an expired plan.
C16_Witness ==
    /\ sweep.pc = "locked" /\ sweep.todo = {}
    /\ lastOp.op = "store" /\ lastOp.present /\ lastOp.when = "after"
    /\ lastOp.id \in kept /\ lastOp.id \in DOMAIN plans
    /\ clock < plans[lastOp.id].ExpiresAt

\* C17: when a sweep that read the clock at t is through with the map, no
\* entry with expires_at <= t is left in it.
C17_NoneLeftAfterSweep ==
    (sweep.pc = "locked" /\ sweep.todo = {}) =>
        \A id \in DOMAIN plans : ~(plans[id].ExpiresAt <= sweep.now)

\* C18: Store returns no error and the map holds under an id the plan last
\* stored under it: a Store of an id already present puts its plan in place of
\* the earlier one, and a Get that returns a plan returns the later one.
C18_StoreOverwrites ==
    /\ lastOp.op = "store" =>
          /\ lastOp.err = NoError
          /\ lastOp.id \in DOMAIN plans => plans[lastOp.id] = lastOp.plan
    /\ (lastOp.op = "get" /\ lastOp.err = NoError) => lastOp.plan = Logical(lastOp.id)
    /\ \A id \in DOMAIN plans : plans[id].ID = id /\ plans[id] = Logical(id)

\* C18 witness: a plan was stored under an id that held another plan, and a Get
\* of the id followed.
C18_Witness ==
    /\ lastOp.op = "get" /\ lastOp.err = NoError
    /\ \E i, j \in DOMAIN built :
          /\ i < j /\ built[i].ID = built[j].ID /\ built[i] # built[j]
          /\ lastOp.plan = built[j]
          /\ built[i].ExpiresAt > clock

\* C19: any two plans BuildExecutionPlan has built have different ids.
C19_PlanIdsDiffer ==
    \A i, j \in DOMAIN built : i # j => built[i].ID # built[j].ID

\* C20: every plan BuildExecutionPlan has built has
\* expires_at = created_at + 5 minutes.
C20_ExpiresAtIsCreatedPlusTTL ==
    \A i \in DOMAIN built : built[i].ExpiresAt = built[i].CreatedAt + TTL

\* C22: after any sequence of AppendToSession calls on a session with no
\* clearSession in between, getSessionHistory returns exactly the appended
\* turns, in the order of the calls, each with the role and text it was
\* appended with; and a sequence it returned was the turns appended up to then.
C22_HistoryIsWhatWasAppended ==
    /\ \A sessionID \in Sessions :
          getSessionHistory(sessionHistory, sessionID) = Log(sessionID)
    /\ held.got => held.asReturned = held.logged

\* C22 witness: getSessionHistory returned two turns of different roles and
\* texts appended to a session, and a third was appended after.
C22_Witness ==
    /\ held.got /\ Len(held.asReturned) = 2
    /\ held.asReturned[1].Role # held.asReturned[2].Role
    /\ held.asReturned[1].Message # held.asReturned[2].Message
    /\ Len(Log(held.session)) = 3

C24_UndecodableNeverHandled ==
    \A m \in Messages :
        (arrived[m] # "" /\ ~sent[m].wellFormed) =>
            /\ Len(runs[m]) <= subs[arrived[m]]
            /\ \A k \in DOMAIN runs[m] :
                  LET run == runs[m][k]
                  IN  /\ run.typed = 0
                      /\ Len(run.results) <= Len(run.hs)
                      /\ \A i \in DOMAIN run.results : run.results[i] = "decode_error"
                      /\ Finished(run) => Len(run.results) = Len(run.hs)

\* C24 witness: the callback is through with an undecodable message for which
\* two handlers were registered.
C24_Witness ==
    \E m \in Messages : \E k \in DOMAIN runs[m] :
        /\ ~sent[m].wellFormed
        /\ Finished(runs[m][k])
        /\ Len(runs[m][k].hs) = 2
        /\ Len(runs[m][k].results) = 2

Rendered(params, key) ==
    IF key \in DOMAIN params /\ params[key] # Nil THEN params[key] ELSE ""

\* Step has text among its parts.
StepContains(step, text) == \E i \in DOMAIN step : step[i] = text

\* C21: a plan built for a SETUP_CDN response has, among its ordered steps, a
\* step that contains the domain parameter and a step that contains the origin
\* parameter, each the empty text when the parameter is absent or null.
C21_SetupStepsNameDomainAndOrigin ==
    \A n \in DOMAIN built :
        built[n].Action = "SETUP_CDN" =>
            /\ \E i \in DOMAIN built[n].Steps :
                  StepContains(built[n].Steps[i], Rendered(built[n].Parameters, "domain"))
            /\ \E j \in DOMAIN built[n].Steps :
                  StepContains(built[n].Steps[j], Rendered(built[n].Parameters, "origin"))

\* C21 witness: a plan was built for a SETUP_CDN response with a domain and no
\* origin entry.
C21_Witness ==
    \E n \in DOMAIN built :
        /\ built[n].Action = "SETUP_CDN"
        /\ Rendered(built[n].Parameters, "domain") = "shop.example.org"
        /\ "origin" \notin DOMAIN built[n].Parameters
        /\ StepContains(built[n].Steps[2], "")

\* C26: a status-request event the handler is through with has exactly one
\* status response published for it, carrying the user id and session id of
\* the event: with no services when the lister failed, with one entry per
\* listed service in the lister's order when it succeeded; no response is
\* published before, and the intent classifier is not called.
C26_OneStatusResponse ==
    \A r \in StatusEvents :
        LET q == statusReq[r]
        IN  /\ q.classifierCalls = 0
            /\ q.pc # "done" => q.published = <<>>
            /\ q.pc = "done" =>
                  /\ Len(q.published) = 1
                  /\ q.published[1].subject = SubjectStatusResponse
                  /\ q.published[1].event.UserID = q.event.UserID
                  /\ q.published[1].event.SessionID = q.event.SessionID
                  /\ q.listed.err => q.published[1].event.Services = <<>>
                  /\ ~q.listed.err =>
                        /\ Len(q.published[1].event.Services) = Len(q.listed.services)
                        /\ \A i \in DOMAIN q.listed.services :
                              /\ q.published[1].event.Services[i].ID = q.listed.services[i].ID
                              /\ q.published[1].event.Services[i].Name = q.listed.services[i].Name
                              /\ q.published[1].event.Services[i].Status = q.listed.services[i].Status

\* C26 witness: two status requests of different users are answered, one after
\* the lister failed, one after it listed two services, the second with a
\* config blob that does not parse.
C26_Witness ==
    \E r, t \in StatusEvents :
        /\ statusReq[r].pc = "done" /\ statusReq[t].pc = "done"
        /\ statusReq[r].event.UserID # statusReq[t].event.UserID
        /\ statusReq[r].listed.err
        /\ ~statusReq[t].listed.err
        /\ Len(statusReq[t].listed.services) = 2
        /\ statusReq[t].listed.services[1].ID = "svc1"
        /\ statusReq[t].listed.services[2].Config = Unparsable
        /\ statusReq[t].published[1].event.Services[1].TestURL = "alpha.cachefly.net"
        /\ statusReq[t].published[1].event.Services[2].TestURL = ""

\* C27: while the handler of one chat event waits for the classification reply
\* or for the executor, the chat event that is next to be delivered can start
\* being processed.
C27_DeliveryNotBlocked ==
    \A d, e \in Events :
        (/\ d # e
         /\ pc[d] \in {"await_intent", "executing"}
         /\ pc[e] = "idle"
         /\ \A c \in Events : c < e => pc[c] # "idle"
         /\ Invocations(SubjectChat, ChatHandler) = 1)
            => ENABLED DeliverSerial(e)

C29_DeadlineAbortsPendingStep ==
    \A e \in Events :
        /\ (expired[e] = "classify" /\ pc[e] \in {"executing", "done"}) =>
              /\ intentOutcome[e].kind # "reply"
              /\ published[e] = FallbackReplies(event[e])
        /\ (expired[e] = "execute" /\ pc[e] = "done") => execResult[e].err

\* C30: a Publish or Request of a payload that marshals, made while the
\* transport is not connected, returns a connectivity error at once, and a
\* message published while the transport was not connected is never delivered.
C30_FailFastWhileDisconnected ==
    /\ \A i \in DOMAIN transport.msgs :
          LET msg == transport.msgs[i]
          IN  (msg.marshals /\ ~IsConnected(msg.state)) =>
                  /\ msg.err \in {"nats: connection closed", "nats: outbound buffer limit exceeded"}
                  /\ ~msg.delivered
    /\ (transport.request.marshals /\ transport.request.state # ""
            /\ ~IsConnected(transport.request.state)) =>
          /\ transport.request.err = "nats: connection closed"
          /\ transport.request.atOnce

\* C31: after a disconnect at most MaxReconnects (10) reconnect attempts are
\* made; a connection that reconnects ends connected or, the attempts
\* exhausted, closed; and a closed connection stays closed, IsConnected false.
C31_ReconnectIsBounded ==
    /\ [](/\ transport.attempts <= MaxReconnects
          /\ (transport.state = "reconnecting" => transport.attempts < MaxReconnects)
          /\ (transport.state = "closed" => ~IsConnected(transport.state)))
    /\ [][transport.state = "closed" => transport'.state = "closed"]_vars
    /\ (transport.state = "reconnecting") ~> (transport.state \in {"connected", "closed"})

\* C31 witness: the connection is closed after MaxReconnects failed attempts.
C31_Witness ==
    /\ transport.state = "closed"
    /\ transport.attempts = MaxReconnects
    /\ ~IsConnected(transport.state)

\* C32: when the classification of a chat event has come back READY with an
\* action, a plan was built from the response and is in the plan store under
\* its id.
C32_ReadyPlanIsStored ==
    \A e \in Events :
        (/\ pc[e] \in {"executing", "done"}
         /\ intentOutcome[e].kind = "reply"
         /\ ChatSwitch(intentOutcome[e].response).execute)
            => \E i \in DOMAIN built :
                  /\ built[i].Action = intentOutcome[e].response.Action
                  /\ built[i].ID \in DOMAIN plans

\* Sequence p is a prefix of sequence q.
IsPrefix(p, q) == Len(p) <= Len(q) /\ \A i \in DOMAIN p : p[i] = q[i]

\* C33: under any interleaving of concurrent AppendToSession,
\* getSessionHistory and clearSession calls, the history of a session is the
\* turns of the appends to it that returned since it was last cleared, none
\* lost and none twice, and what a getSessionHistory returned is, while the
\* session is not cleared, a prefix of the history.
C33_NoAppendLost ==
    /\ \A sessionID \in Sessions :
          (\A g \in Goroutines : ~(threads[g].pc = "read" /\ threads[g].session = sessionID))
              => getSessionHistory(sessionHistory, sessionID) = Log(sessionID)
    /\ \A g \in Goroutines :
          threads[g].current =>
              IsPrefix(threads[g].result,
                       getSessionHistory(sessionHistory, threads[g].session))

\* C33 witness: an append to a session that has a turn waits for the lock
\* while another append to the same session, which has read the map, holds it.
C33_Witness ==
    \E g, h \in Goroutines :
        /\ threads[g].pc = "want" /\ threads[g].op = "append"
        /\ threads[h].pc = "read" /\ threads[h].op = "append"
        /\ threads[h].session = threads[g].session
        /\ Len(Log(threads[h].session)) = 1

\* C34: handling is not single-flight per session: while the handler of a chat
\* event has its classification request out and no reply published, the next
\* chat event, of the same session, can be taken up by its handler.
C34_SameSessionNotHeldBack ==
    \A d, e \in Events :
        (/\ d # e
         /\ pc[d] = "await_intent" /\ published[d] = <<>>
         /\ pc[e] = "idle"
         /\ \A c \in Events : c < e => pc[c] # "idle"
         /\ Invocations(SubjectChat, ChatHandler) = 1)
            => ENABLED (/\ DeliverSerial(e)
                        /\ pc'[e] = "handling"
                        /\ event'[e].SessionID = event[d].SessionID)


\* C35: the history of a session only grows by appending: in a step that is
\* not clearSession of the session, what getSessionHistory returns before is a
\* prefix of what it returns after; clearSession of a session removes its
\* whole record, so that its history reads empty, the session count is one
\* less, and the history of every other session is as it was.
C35_HistoryOnlyGrowsUntilCleared ==
    [][\A s \in Sessions :
          /\ ~CallClear(s) =>
                IsPrefix(getSessionHistory(sessionHistory, s),
                         getSessionHistory(sessionHistory', s))
          /\ CallClear(s) =>
                /\ getSessionHistory(sessionHistory', s) = <<>>
                /\ s \notin getAllSessionIDs(sessionHistory')
                /\ getSessionCount(sessionHistory') = getSessionCount(sessionHistory) - 1
                /\ \A t \in Sessions \ {s} :
                      /\ t \in DOMAIN sessionHistory' <=> t \in DOMAIN sessionHistory
                      /\ getSessionHistory(sessionHistory', t)
                            = getSessionHistory(sessionHistory, t)]_vars

\* C35 witness: a session whose history was read with a turn in it has since
\* been cleared, while another session has grown to two turns and kept them.
C35_Witness ==
    /\ held.got /\ Len(held.asReturned) >= 1
    /\ held.session \notin DOMAIN sessionHistory
    /\ \E t \in Sessions \ {held.session} :
          Len(getSessionHistory(sessionHistory, t)) = 2

\* C36: getSessionHistory of a session that has no record returns the empty
\* sequence and makes no record: the session count and the session ids are the
\* same after the call as before it.
C36_ReadOfUnknownSessionCreatesNoRecord ==
    [][\A s \in Sessions :
          (CallGetHistory(s) /\ s \notin DOMAIN sessionHistory) =>
              /\ held'.asReturned = <<>>
              /\ getSessionCount(sessionHistory') = getSessionCount(sessionHistory)
              /\ getAllSessionIDs(sessionHistory') = getAllSessionIDs(sessionHistory)
              /\ s \notin getAllSessionIDs(sessionHistory')]_vars

\* C36 witness: the history of a session without a record was read and came
\* back empty while another session had a record; the session still has none.
C36_Witness ==
    /\ held.got /\ held.asReturned = <<>>
    /\ held.session \notin getAllSessionIDs(sessionHistory)
    /\ getSessionCount(sessionHistory) = 1


\* C37: handling a chat event adds exactly one turn to the history of its
\* session, the user's message with role user, and adds it before the
\* classification request is issued; neither the outcome of the classification
\* nor the publishing of the reply adds another turn.
C37_OneUserTurnPerEvent ==
    \A s \in Sessions :
        LET turns == getSessionHistory(sessionHistory, s)
            ofSession == {e \in Events : Decoded(e) /\ event[e].SessionID = s}
            issued == {e \in ofSession : intentRequests[e] # <<>>}
            past == {e \in ofSession : pc[e] \notin {"idle", "handling", "have_history"}}
        IN  /\ \A i \in DOMAIN turns : turns[i].Role = "user"
            /\ \A e \in issued : Holds(turns, UserTurn(event[e].Message))
            /\ Cardinality(issued) <= Len(turns)
            /\ Len(turns) <= Cardinality(past)


\* C38: a registration whose bus subscription fails leaves the handler
\* registry as it was before the call, so that a callback started afterwards
\* for the subject ranges over the same handlers as before.
C38_FailedRegistrationLeavesRegistry ==
    [][\A subject \in RegSubjects :
          Register(subject, FALSE) => handlers' = handlers]_vars


\* C39: the handler registry is not written while a delivery callback reads
\* it: in no state are the read of the registry by the callback of an active
\* subscription and the write of a registration both the next step of their
\* goroutines, with nothing that orders the one before the other.
C39_RegistryWriteExcludesRead ==
    \A m \in Messages, k \in 1..MaxRegistrations, subject \in RegSubjects :
        ~(ENABLED CallbackStart(m, k) /\ ENABLED Register(subject, TRUE))


\* C40: handling an inbound event never sets off a handler of this process
\* again: what a callback run publishes is on the chat-response or the
\* status-response subject, nothing a handler sends is on a subject this
\* process subscribes to, a run publishes at most once per handler, and every
\* delivery to a callback is of a message that came from another process.
C40_NoHandlerSetOffByAHandler ==
    /\ \A i \in DOMAIN wire.last :
          /\ wire.last[i].kind = "publish" =>
                wire.last[i].subject \in {SubjectChatResponse, SubjectStatusResponse}
          /\ Subscriptions(wire.last[i].subject) = 0
    /\ Cardinality({i \in DOMAIN wire.last : wire.last[i].kind = "publish"}) <= 1
    /\ \A i \in DOMAIN wire.queue : wire.queue[i].from = "bus"
    /\ wire.handled <= wire.delivered
    /\ \A s \in DOMAIN handlers : Len(handlers[s]) <= 1

\* C40 witness: two events came in and were handled, the second by the chat
\* handler, which sent its request and published its reply; nothing is due.
C40_Witness ==
    /\ wire.inbound = 2 /\ wire.handled = 2 /\ wire.queue = <<>>
    /\ wire.last = <<RequestOn(SubjectIntentAnalyze), PublishOn(SubjectChatResponse)>>

====
